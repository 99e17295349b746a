------------------------- MODULE AgentPipelineProofs -------------------------
(***************************************************************************)
(* The export path for every batch size, every capacity and every number   *)
(* of events: what EventBatcher promises alone; that the batcher in the    *)
(* pipeline is that one; that what exporter and network do to its batches  *)
(* neither counts an event twice nor loses one without a trace; and that   *)
(* the whole is the queue of LossyFifo.                                    *)
(***************************************************************************)
EXTENDS AgentPipeline, DataLemmas, SequenceTheorems, TLAPS

Events == 1..MaxEvents

-----------------------------------------------------------------------------
(* Sequences of numbers under the operations a channel performs.           *)

(* An empty queue is in any order with any other.                          *)
LEMMA EmptyOrder ==
  ASSUME NEW t
  PROVE  StrictlyIncreasing(<< >>) /\ Before(<< >>, t) /\ Before(t, << >>)
         /\ \A n : UpTo(<< >>, n)
BY DEF StrictlyIncreasing, Before, UpTo

(* What order and bounds of a queue become when an element comes last, as  *)
(* Submit and Receive do.                                                  *)
LEMMA AppendOrder ==
  ASSUME NEW s \in Seq(Nat), NEW x \in Nat
  PROVE  /\ StrictlyIncreasing(s) /\ UpTo(s, x - 1) => StrictlyIncreasing(Append(s, x))
         /\ \A t : Before(s, t) /\ (\A j \in DOMAIN t : x < t[j]) => Before(Append(s, x), t)
         /\ \A m : UpTo(s, m) /\ x <= m => UpTo(Append(s, x), m)
         /\ \A t : Before(t, s) /\ (\A j \in DOMAIN t : t[j] < x) => Before(t, Append(s, x))
<1> DEFINE a == Append(s, x)
           n == Len(s)
<1>1. /\ DOMAIN a = 1..(n + 1)
      /\ DOMAIN s = 1..n
      /\ \A i \in 1..n : a[i] = s[i] /\ s[i] \in Nat
      /\ a[n + 1] = x
  OBVIOUS
<1>2. n \in Nat
  OBVIOUS
<1> HIDE DEF a, n
<1>3. \A i \in DOMAIN a : (i \in DOMAIN s /\ a[i] = s[i]) \/ (i = n + 1 /\ a[i] = x)
  BY <1>1, <1>2
<1>4. StrictlyIncreasing(s) /\ UpTo(s, x - 1) => StrictlyIncreasing(a)
  <2> SUFFICES ASSUME StrictlyIncreasing(s), UpTo(s, x - 1),
                      NEW i \in DOMAIN a, NEW j \in DOMAIN a, i < j
               PROVE  a[i] < a[j]
    BY DEF StrictlyIncreasing
  <2>1. i \in DOMAIN s /\ a[i] = s[i] /\ s[i] \in Nat /\ s[i] <= x - 1
    BY <1>1, <1>2, <1>3 DEF UpTo
  <2> QED
    BY <1>3, <2>1 DEF StrictlyIncreasing
<1>5. \A t : Before(s, t) /\ (\A j \in DOMAIN t : x < t[j]) => Before(a, t)
  BY <1>3 DEF Before
<1>6. \A m : UpTo(s, m) /\ x <= m => UpTo(a, m)
  BY <1>3 DEF UpTo
<1>7. \A t : Before(t, s) /\ (\A j \in DOMAIN t : t[j] < x) => Before(t, a)
  BY <1>3 DEF Before
<1> QED
  BY <1>4, <1>5, <1>6, <1>7 DEF a

(* A queue without its head stays in order, and the head was before all    *)
(* the rest: what Receive and Take leave.                                  *)
LEMMA TailOrder ==
  ASSUME NEW s \in Seq(Nat), s # << >>
  PROVE  /\ StrictlyIncreasing(s) =>
              StrictlyIncreasing(Tail(s)) /\ \A j \in DOMAIN Tail(s) : Head(s) < Tail(s)[j]
         /\ \A t : Before(s, t) => Before(Tail(s), t) /\ \A j \in DOMAIN t : Head(s) < t[j]
         /\ \A t : Before(t, s) => Before(t, Tail(s)) /\ \A j \in DOMAIN t : t[j] < Head(s)
         /\ \A n : UpTo(s, n) => UpTo(Tail(s), n) /\ Head(s) <= n
<1>1. /\ Tail(s) \in Seq(Nat)
      /\ DOMAIN Tail(s) = 1..(Len(s) - 1)
      /\ DOMAIN s = 1..Len(s)
      /\ Len(s) \in Nat \ {0}
      /\ \A i \in 1..(Len(s) - 1) : Tail(s)[i] = s[i + 1]
      /\ Head(s) = s[1]
  BY HeadTailProperties
<1> DEFINE r == Tail(s)
           h == Head(s)
<1> HIDE DEF r, h
<1>2. \A i \in DOMAIN r : i + 1 \in DOMAIN s /\ r[i] = s[i + 1] /\ i \in Nat /\ 1 < i + 1
  BY <1>1 DEF r
<1>3. 1 \in DOMAIN s /\ h = s[1]
  BY <1>1 DEF h
<1>4. ASSUME StrictlyIncreasing(s)
      PROVE  StrictlyIncreasing(r) /\ \A j \in DOMAIN r : h < r[j]
  BY <1>2, <1>3, <1>4 DEF StrictlyIncreasing
<1>5. \A t : Before(s, t) => Before(r, t) /\ \A j \in DOMAIN t : h < t[j]
  BY <1>2, <1>3 DEF Before
<1>6. \A t : Before(t, s) => Before(t, r) /\ \A j \in DOMAIN t : t[j] < h
  BY <1>2, <1>3 DEF Before
<1>7. \A n : UpTo(s, n) => UpTo(r, n) /\ h <= n
  BY <1>2, <1>3 DEF UpTo
<1> QED
  BY <1>4, <1>5, <1>6, <1>7 DEF r, h
-----------------------------------------------------------------------------
(* Sequences joined and cut, and batches joined by FlattenSeq.             *)

(* ConcatAssociative, for all sequences at once.                           *)
LEMMA Regroup ==
  \A S : \A s, t, u \in Seq(S) : (s \o t) \o u = s \o (t \o u)
BY Zenon, ConcatAssociative

(* f holds what the first batches make, one batch at a time.               *)
Grows(s, f) == \A i \in DOMAIN f : f[i] = IF i = 1 THEN s[i] ELSE f[i - 1] \o s[i]

(* It is what FlattenSeq takes its last value of.                          *)
LEMMA FlattenChoice ==
  ASSUME NEW s
  PROVE  FlattenSeq(s) =
           IF Len(s) = 0 THEN s
           ELSE (CHOOSE f : f = [i \in 1..Len(s) |->
                                   IF i = 1 THEN s[i] ELSE f[i - 1] \o s[i]])[Len(s)]
BY Zenon DEF FlattenSeq

(* There is no other such function.                                        *)
LEMMA GrowsUnique ==
  ASSUME NEW s, NEW n \in Nat, NEW f, NEW g, DOMAIN f = 1..n, DOMAIN g = 1..n,
         Grows(s, f), Grows(s, g)
  PROVE  \A i \in 1..n : f[i] = g[i]
<1> DEFINE P == {i \in Nat : i \in 1..n => f[i] = g[i]}
<1>1. 0 \in P
  OBVIOUS
<1>2. ASSUME NEW i \in Nat, i \in P PROVE i + 1 \in P
  <2> SUFFICES ASSUME i + 1 \in 1..n PROVE f[i + 1] = g[i + 1]
    OBVIOUS
  <2>1. CASE i = 0
    <3>1. i + 1 = 1 /\ 1 \in DOMAIN f /\ 1 \in DOMAIN g
      BY <2>1
    <3>2. f[1] = s[1] /\ g[1] = s[1]
      BY <3>1 DEF Grows
    <3> QED
      BY <3>1, <3>2
  <2>2. CASE i # 0
    <3>1. i \in 1..n /\ (i + 1) - 1 = i /\ i + 1 # 1
      BY <2>2
    <3>2. f[i] = g[i]
      BY <1>2, <3>1
    <3>3. f[i + 1] = f[i] \o s[i + 1] /\ g[i + 1] = g[i] \o s[i + 1]
      BY <3>1 DEF Grows
    <3> QED
      BY <3>2, <3>3
  <2> QED
    BY <2>1, <2>2
<1> HIDE DEF P
<1>3. Nat \subseteq P
  BY <1>1, <1>2, Induction
<1> QED
  BY <1>3 DEF P

(* Whoever has such a function has what FlattenSeq makes.                  *)
LEMMA FlattenBy ==
  ASSUME NEW s, NEW n \in Nat \ {0}, Len(s) = n, NEW f, f = [i \in 1..n |-> f[i]], Grows(s, f)
  PROVE  FlattenSeq(s) = f[n]
<1> DEFINE Rec(g) == g = [i \in 1..n |-> IF i = 1 THEN s[i] ELSE g[i - 1] \o s[i]]
           c == CHOOSE g : Rec(g)
<1>1. Rec(f)
  <2>1. \A i \in 1..n : f[i] = IF i = 1 THEN s[i] ELSE f[i - 1] \o s[i]
    BY DEF Grows
  <2> QED
    BY <2>1
<1>2. Rec(c)
  <2> HIDE DEF Rec
  <2> QED
    BY <1>1
<1>3. DOMAIN c = 1..n /\ Grows(s, c)
  <2> HIDE DEF c
  <2> QED
    BY <1>2 DEF Grows
<1>4. FlattenSeq(s) = c[n]
  BY FlattenChoice
<1>5. DOMAIN f = 1..n
  OBVIOUS
<1> HIDE DEF c
<1>6. \A i \in 1..n : f[i] = c[i]
  BY <1>3, <1>5, GrowsUnique
<1> QED
  BY <1>4, <1>6

(* Every sequence of batches has one.                                      *)
LEMMA GrowsExists ==
  ASSUME NEW E, NEW s \in Seq(Seq(E))
  PROVE  \E f \in [1..Len(s) -> Seq(E)] : Grows(s, f)
<1> DEFINE P == {n \in Nat : n <= Len(s) => \E f \in [1..n -> Seq(E)] : Grows(s, f)}
<1>0. Len(s) \in Nat /\ \A i \in 1..Len(s) : s[i] \in Seq(E)
  OBVIOUS
<1>1. 0 \in P
  <2>1. << >> \in [1..0 -> Seq(E)] /\ DOMAIN << >> = {}
    OBVIOUS
  <2>2. Grows(s, << >>)
    BY <2>1 DEF Grows
  <2> QED
    BY <2>1, <2>2
<1>2. ASSUME NEW n \in Nat, n \in P PROVE n + 1 \in P
  <2> SUFFICES ASSUME n + 1 <= Len(s)
               PROVE  \E f \in [1..(n + 1) -> Seq(E)] : Grows(s, f)
    OBVIOUS
  <2>1. n <= Len(s) /\ n + 1 \in 1..Len(s)
    BY <1>0
  <2>2. PICK g \in [1..n -> Seq(E)] : Grows(s, g)
    BY <1>2, <2>1
  <2> DEFINE h == [i \in 1..(n + 1) |->
                     IF i <= n THEN g[i] ELSE IF n = 0 THEN s[i] ELSE g[n] \o s[i]]
  <2>3. n # 0 => g[n] \o s[n + 1] \in Seq(E)
    BY <1>0, <2>1, ConcatProperties
  <2>4. h \in [1..(n + 1) -> Seq(E)]
    <3> SUFFICES ASSUME NEW i \in 1..(n + 1) PROVE h[i] \in Seq(E)
      OBVIOUS
    <3>1. CASE i <= n
      BY <3>1
    <3>2. CASE i = n + 1
      BY <1>0, <2>1, <2>3, <3>2
    <3> QED
      BY <3>1, <3>2
  <2>5. Grows(s, h)
    <3> SUFFICES ASSUME NEW i \in 1..(n + 1)
                 PROVE  h[i] = IF i = 1 THEN s[i] ELSE h[i - 1] \o s[i]
      BY DEF Grows
    <3>1. CASE i <= n
      <4>1. i \in DOMAIN g /\ (i # 1 => i - 1 \in 1..n)
        BY <3>1
      <4>2. g[i] = IF i = 1 THEN s[i] ELSE g[i - 1] \o s[i]
        BY <2>2, <4>1 DEF Grows
      <4>3. h[i] = g[i]
        BY <3>1
      <4>4. i # 1 => h[i - 1] = g[i - 1]
        BY <4>1
      <4> HIDE DEF h
      <4> QED
        BY <4>2, <4>3, <4>4
    <3>2. CASE i = n + 1
      <4>1. i - 1 = n /\ ~(i <= n)
        BY <3>2
      <4>2. CASE n = 0
        BY <3>2, <4>1, <4>2
      <4>3. CASE n # 0
        <5>1. n \in 1..(n + 1) /\ h[n] = g[n] /\ i # 1
          BY <3>2, <4>3
        <5> QED
          BY <4>1, <4>3, <5>1
      <4> QED
        BY <4>2, <4>3
    <3> QED
      BY <3>1, <3>2
  <2> HIDE DEF h
  <2> QED
    BY <2>4, <2>5
<1> HIDE DEF P
<1>3. Nat \subseteq P
  BY <1>1, <1>2, Induction
<1> QED
  BY <1>0, <1>3 DEF P

(* No batches, no events.                                                  *)
LEMMA FlattenEmpty == FlattenSeq(<< >>) = << >>
  BY FlattenChoice

(* The events of a sequence of batches.                                    *)
LEMMA FlattenType ==
  ASSUME NEW E, NEW s \in Seq(Seq(E))
  PROVE  FlattenSeq(s) \in Seq(E)
<1>1. CASE s = << >>
  <2>1. FlattenSeq(s) = << >> /\ << >> \in Seq(E)
    BY <1>1, FlattenEmpty
  <2> QED
    BY <2>1
<1>2. CASE s # << >>
  <2>1. PICK f \in [1..Len(s) -> Seq(E)] : Grows(s, f)
    BY GrowsExists
  <2>2. Len(s) \in Nat \ {0}
    BY <1>2
  <2>3. FlattenSeq(s) = f[Len(s)]
    BY <2>1, <2>2, FlattenBy
  <2>4. f[Len(s)] \in Seq(E)
    <3> DEFINE n == Len(s)
    <3>1. n \in 1..n /\ f \in [1..n -> Seq(E)]
      BY <2>1, <2>2
    <3> HIDE DEF n
    <3>2. f[n] \in Seq(E)
      BY <3>1
    <3> QED
      BY <3>2 DEF n
  <2> QED
    BY <2>3, <2>4
<1> QED
  BY <1>1, <1>2

(* One batch more at the end.                                              *)
LEMMA FlattenAppend ==
  ASSUME NEW E, NEW s \in Seq(Seq(E)), NEW b \in Seq(E)
  PROVE  FlattenSeq(Append(s, b)) = FlattenSeq(s) \o b
<1> DEFINE n == Len(s)
           a == Append(s, b)
<1>1. /\ n \in Nat /\ Len(a) = n + 1 /\ a[n + 1] = b
      /\ \A i \in 1..n : a[i] = s[i]
      /\ n = 0 => s = << >>
  OBVIOUS
<1>2. PICK f \in [1..n -> Seq(E)] : Grows(s, f)
  BY GrowsExists
<1> HIDE DEF n, a
<1> DEFINE h == [i \in 1..(n + 1) |-> IF i <= n THEN f[i] ELSE FlattenSeq(s) \o b]
<1>3. n # 0 => FlattenSeq(s) = f[n]
  BY <1>1, <1>2, FlattenBy DEF n
<1>4. n = 0 => FlattenSeq(s) \o b = b
  BY <1>1, FlattenEmpty, ConcatEmptySeq
<1>5. Grows(a, h)
  <2> SUFFICES ASSUME NEW i \in 1..(n + 1)
               PROVE  h[i] = IF i = 1 THEN a[i] ELSE h[i - 1] \o a[i]
    BY DEF Grows
  <2>1. CASE i <= n
    <3>1. i \in 1..n /\ (i # 1 => i - 1 \in 1..n)
      BY <1>1, <2>1
    <3>2. f[i] = IF i = 1 THEN s[i] ELSE f[i - 1] \o s[i]
      BY <1>2, <3>1 DEF Grows
    <3>3. h[i] = f[i] /\ a[i] = s[i]
      BY <1>1, <2>1, <3>1
    <3>4. i # 1 => h[i - 1] = f[i - 1]
      BY <1>1, <3>1
    <3> HIDE DEF h
    <3> QED
      BY <3>2, <3>3, <3>4
  <2>2. CASE i = n + 1
    <3>1. i - 1 = n /\ ~(i <= n) /\ h[i] = FlattenSeq(s) \o b /\ a[i] = b
      BY <1>1, <2>2
    <3>2. CASE n = 0
      BY <1>4, <2>2, <3>1, <3>2
    <3>3. CASE n # 0
      <4>1. n \in 1..(n + 1) /\ h[n] = f[n] /\ i # 1
        BY <1>1, <2>2, <3>3
      <4> QED
        BY <1>3, <3>1, <3>3, <4>1
    <3> QED
      BY <3>2, <3>3
  <2> QED
    BY <1>1, <2>1, <2>2
<1>6. h[n + 1] = FlattenSeq(s) \o b /\ n + 1 \in Nat \ {0} /\ h = [i \in 1..(n + 1) |-> h[i]]
  BY <1>1
<1> HIDE DEF h
<1>7. FlattenSeq(a) = h[n + 1]
  BY <1>1, <1>5, <1>6, FlattenBy
<1> QED
  BY <1>6, <1>7 DEF a

(* One batch fewer at the front.                                           *)
LEMMA FlattenTail ==
  ASSUME NEW E, NEW s \in Seq(Seq(E)), s # << >>
  PROVE  FlattenSeq(s) = Head(s) \o FlattenSeq(Tail(s))
<1> DEFINE n == Len(s)
           x == Head(s)
           t == Tail(s)
<1>1. /\ n \in Nat \ {0} /\ x = s[1] /\ x \in Seq(E)
      /\ t \in Seq(Seq(E)) /\ Len(t) = n - 1
      /\ \A i \in 1..(n - 1) : t[i] = s[i + 1] /\ t[i] \in Seq(E)
  BY HeadTailProperties
<1>2. PICK f \in [1..Len(t) -> Seq(E)] : Grows(t, f)
  BY <1>1, GrowsExists
<1> HIDE DEF n, x, t
<1> DEFINE h == [i \in 1..n |-> IF i = 1 THEN x ELSE x \o f[i - 1]]
<1>3. Grows(s, h)
  <2> SUFFICES ASSUME NEW i \in 1..n
               PROVE  h[i] = IF i = 1 THEN s[i] ELSE h[i - 1] \o s[i]
    BY DEF Grows
  <2>1. CASE i = 1
    BY <1>1, <2>1
  <2>2. CASE i = 2
    <3>1. 1 \in 1..(n - 1) /\ 1 \in 1..n /\ i - 1 = 1
      BY <1>1, <2>2
    <3>2. t[1] = s[1 + 1] /\ 1 + 1 = 2
      BY <1>1, <3>1
    <3>3. 1 \in DOMAIN f
      BY <1>1, <1>2, <3>1
    <3>4. f[1] = t[1]
      BY <1>2, <3>3 DEF Grows
    <3>5. h[i] = x \o f[1] /\ h[i - 1] = x /\ i # 1
      BY <2>2, <3>1
    <3> HIDE DEF h
    <3> QED
      BY <2>2, <3>2, <3>4, <3>5
  <2>3. CASE i > 2
    <3>1. /\ i - 1 \in 1..(n - 1) /\ i - 1 # 1 /\ i - 1 \in 1..n /\ i # 1
          /\ (i - 1) - 1 \in 1..(n - 1) /\ (i - 1) + 1 = i
      BY <1>1, <2>3
    <3>2. f[i - 1] = f[(i - 1) - 1] \o t[i - 1] /\ t[i - 1] = s[i]
      BY <1>1, <1>2, <3>1 DEF Grows
    <3>3. f[(i - 1) - 1] \in Seq(E) /\ t[i - 1] \in Seq(E)
      BY <1>1, <1>2, <3>1
    <3>4. x \o (f[(i - 1) - 1] \o t[i - 1]) = (x \o f[(i - 1) - 1]) \o t[i - 1]
      <4>1. \A u, v \in Seq(E) : (x \o u) \o v = x \o (u \o v)
        <5>1. x \in Seq(E)
          BY <1>1
        <5> QED
          BY ONLY <5>1, Regroup
      <4> QED
        BY <3>3, <4>1
    <3>5. h[i] = x \o f[i - 1] /\ h[i - 1] = x \o f[(i - 1) - 1]
      BY <3>1
    <3> QED
      BY <3>1, <3>2, <3>4, <3>5
  <2> QED
    BY <1>1, <2>1, <2>2, <2>3
<1>4. h = [i \in 1..n |-> h[i]]
  OBVIOUS
<1>5. h[n] = x \o FlattenSeq(t)
  <2>1. CASE n = 1
    <3>1. t = << >>
      BY <1>1, <2>1
    <3>2. x \o FlattenSeq(t) = x
      BY <1>1, <3>1, FlattenEmpty, ConcatEmptySeq
    <3> QED
      BY <2>1, <3>2
  <2>2. CASE n # 1
    <3>1. n - 1 \in Nat \ {0} /\ n \in 1..n
      BY <1>1, <2>2
    <3>2. FlattenSeq(t) = f[n - 1]
      BY <1>1, <1>2, <3>1, FlattenBy
    <3> QED
      BY <2>2, <3>1, <3>2
  <2> QED
    BY <2>1, <2>2
<1> HIDE DEF h
<1>6. FlattenSeq(s) = h[n]
  BY <1>1, <1>3, <1>4, FlattenBy DEF n
<1> QED
  BY <1>5, <1>6 DEF x, t

(* Where two sequences were joined they can be cut again.                  *)
LEMMA CutJoined ==
  ASSUME NEW S, NEW s \in Seq(S), NEW t \in Seq(S)
  PROVE  /\ SubSeq(s \o t, 1, Len(s)) = s
         /\ SubSeq(s \o t, Len(s) + 1, Len(s \o t)) = t
<1> DEFINE q == s \o t
           m == Len(s)
           n == Len(t)
<1>1. /\ m \in Nat /\ n \in Nat /\ q \in Seq(S) /\ Len(q) = m + n
      /\ \A i \in 1..m : q[i] = s[i]
      /\ \A i \in 1..n : q[m + i] = t[i]
      /\ \A i \in 1..(m + n) : q[i] \in S
  <2>1. /\ m \in Nat /\ n \in Nat /\ q \in Seq(S) /\ Len(q) = m + n
        /\ \A i \in 1..(m + n) : q[i] = IF i <= m THEN s[i] ELSE t[i - m]
    BY ConcatProperties
  <2> HIDE DEF q, m, n
  <2>2. \A i \in 1..n : m + i \in 1..(m + n) /\ ~(m + i <= m) /\ (m + i) - m = i
    BY <2>1
  <2> QED
    BY <2>1, <2>2
<1> HIDE DEF q, m, n
<1>2. SubSeq(q, 1, m) = s
  <2> DEFINE u == SubSeq(q, 1, m)
  <2>1. u \in Seq(S) /\ Len(u) = m /\ \A i \in 1..m : u[i] = q[i]
    <3>1. \A i \in 1..m : q[i] \in S
      BY <1>1
    <3>2. /\ u \in Seq(S) /\ Len(u) = IF 1 <= m THEN m - 1 + 1 ELSE 0
          /\ \A i \in 1..(m - 1 + 1) : u[i] = q[1 + i - 1]
      BY <1>1, <3>1, SubSeqProperties
    <3> QED
      BY <1>1, <3>2
  <2> HIDE DEF u
  <2>2. u = s
    BY <1>1, <2>1, SeqEqual DEF m
  <2> QED
    BY <2>2 DEF u
<1>3. SubSeq(q, m + 1, m + n) = t
  <2> DEFINE u == SubSeq(q, m + 1, m + n)
  <2>1. u \in Seq(S) /\ Len(u) = n /\ \A i \in 1..n : u[i] = q[m + i]
    <3>1. \A i \in (m + 1)..(m + n) : q[i] \in S
      BY <1>1
    <3>2. /\ u \in Seq(S) /\ Len(u) = IF m + 1 <= m + n THEN (m + n) - (m + 1) + 1 ELSE 0
          /\ \A i \in 1..((m + n) - (m + 1) + 1) : u[i] = q[(m + 1) + i - 1]
      BY <1>1, <3>1, SubSeqProperties
    <3> QED
      BY <1>1, <3>2
  <2> HIDE DEF u
  <2>2. u = t
    BY <1>1, <2>1, SeqEqual DEF n
  <2> QED
    BY <2>2 DEF u
<1> QED
  BY <1>1, <1>2, <1>3 DEF q, m, n
-----------------------------------------------------------------------------
(* Types.  One step for each action, and in it one for each variable that  *)
(* the action changes.                                                     *)

USE EventBatcherAssumption DEF EventBatcherAssumption

(* NewEventBatcher makes a well-typed batcher.                             *)
LEMMA TypeInit == Init => TypeOK
<1> SUFFICES ASSUME Init PROVE TypeOK
  OBVIOUS
<1>1. submitted \in 0..MaxEvents
  BY DEF Init
<1>2. inChan \in Seq(1..MaxEvents) /\ buffer \in Seq(1..MaxEvents) /\ out \in Seq(1..MaxEvents)
  BY DEF Init
<1>3. batches \in Seq(Seq(1..MaxEvents))
  BY DEF Init
<1>4. bpc \in BpcValues /\ cancelled \in BOOLEAN
  BY DEF Init, BpcValues
<1>5. dropped \subseteq 1..MaxEvents
  BY DEF Init
<1> QED
  BY <1>1, <1>2, <1>3, <1>4, <1>5 DEF TypeOK

(* Every step of source, goroutine, consumer and signal keeps the types.   *)
LEMMA TypeStep == TypeOK /\ [Next]_vars => TypeOK'
<1> SUFFICES ASSUME TypeOK, [Next]_vars PROVE TypeOK'
  OBVIOUS
<1> USE DEF TypeOK
<1>1. CASE Submit
  <2>1. submitted + 1 \in 1..MaxEvents
    BY <1>1 DEF Submit
  <2>2. submitted' \in 0..MaxEvents
    BY <1>1, <2>1 DEF Submit
  <2>3. dropped' \subseteq 1..MaxEvents
    BY <1>1, <2>1 DEF Submit
  <2>4. inChan' \in Seq(1..MaxEvents)
    <3>1. Append(inChan, submitted + 1) \in Seq(1..MaxEvents)
      BY <2>1
    <3> QED
      BY <1>1, <3>1 DEF Submit
  <2> QED
    BY <1>1, <2>2, <2>3, <2>4 DEF Submit
<1>2. CASE Receive
  <2>1. Head(inChan) \in 1..MaxEvents /\ Tail(inChan) \in Seq(1..MaxEvents)
    BY <1>2, HeadTailProperties DEF Receive
  <2>2. buffer' \in Seq(1..MaxEvents) /\ inChan' \in Seq(1..MaxEvents)
    BY <1>2, <2>1 DEF Receive
  <2>3. bpc' \in BpcValues
    BY <1>2 DEF Receive, BpcValues
  <2> QED
    BY <1>2, <2>2, <2>3 DEF Receive
<1>3. CASE TickerFires
  BY <1>3 DEF TickerFires, BpcValues
<1>4. CASE Done
  BY <1>4 DEF Done, BpcValues
<1>5. ASSUME NEW from, NEW ret \in BpcValues, FlushEmpty(from, ret)
      PROVE  TypeOK'
  BY <1>5 DEF FlushEmpty
<1>6. ASSUME NEW from, NEW sent \in BpcValues, FlushCopy(from, sent)
      PROVE  TypeOK'
  BY <1>6 DEF FlushCopy
<1>7. ASSUME NEW sent, NEW ret \in BpcValues, FlushSend(sent, ret)
      PROVE  TypeOK'
  <2>1. Range(out) \subseteq 1..MaxEvents
    BY DEF Range
  <2>2. dropped' \subseteq 1..MaxEvents
    BY <1>7, <2>1 DEF FlushSend
  <2>3. batches' \in Seq(Seq(1..MaxEvents))
    <3>1. Append(batches, out) \in Seq(Seq(1..MaxEvents))
      OBVIOUS
    <3> QED
      BY <1>7, <3>1 DEF FlushSend
  <2>4. out' \in Seq(1..MaxEvents)
    BY <1>7 DEF FlushSend
  <2> QED
    BY <1>7, <2>2, <2>3, <2>4 DEF FlushSend
<1>8. CASE Consume
  <2>1. batches' \in Seq(Seq(1..MaxEvents))
    BY <1>8, HeadTailProperties DEF Consume
  <2> QED
    BY <1>8, <2>1 DEF Consume
<1>9. CASE Cancel
  BY <1>9 DEF Cancel
<1>10. CASE UNCHANGED vars
  BY <1>10 DEF vars
<1>11. {"select", "stopped", "send", "finalSend"} \subseteq BpcValues
  BY DEF BpcValues
<1> QED
  BY <1>1, <1>2, <1>3, <1>4, <1>5, <1>6, <1>7, <1>8, <1>9, <1>10, <1>11
     DEF Next, Run, Flush, FinalFlush

(* Every reachable state of the batcher is well typed.                     *)
THEOREM TypeCorrect == Spec => []TypeOK
  BY TypeInit, TypeStep, PTL DEF Spec
-----------------------------------------------------------------------------
(* Sizes.                                                                  *)

(* Every step keeps the batches between one event and BatchSize, and the   *)
(* channels within their capacities: Receive and Flush are the steps that  *)
(* could break it.                                                         *)
LEMMA BoundsStep ==
  TypeOK /\ BatchBounds /\ ChannelBounds /\ [Next]_vars
    => BatchBounds' /\ ChannelBounds'
<1> SUFFICES ASSUME TypeOK, BatchBounds, ChannelBounds, [Next]_vars
             PROVE  BatchBounds' /\ ChannelBounds'
  OBVIOUS
<1> USE DEF BatchBounds, ChannelBounds
<1>1. CASE Submit
  <2>1. Len(inChan') <= InCap
    BY <1>1 DEF Submit, TypeOK
  <2> QED
    BY <1>1, <2>1 DEF Submit
<1>2. CASE Receive
  <2>1. Len(buffer') = Len(buffer) + 1 /\ Len(inChan') = Len(inChan) - 1
    BY <1>2, HeadTailProperties DEF Receive, TypeOK
  <2>2. /\ bpc = "select" /\ Len(buffer) < BatchSize /\ Len(buffer) \in Nat
        /\ Len(inChan) \in Nat
    BY <1>2 DEF Receive, TypeOK
  <2>3. bpc' = IF Len(buffer') >= BatchSize THEN "flush" ELSE "select"
    BY <1>2 DEF Receive, NeedFlush
  <2>4. UNCHANGED <<out, batches>>
    BY <1>2 DEF Receive
  <2> QED
    BY <2>1, <2>2, <2>3, <2>4
<1>3. CASE TickerFires
  BY <1>3 DEF TickerFires, TypeOK
<1>4. CASE Done
  BY <1>4 DEF Done
<1>5. ASSUME NEW from, NEW ret, FlushEmpty(from, ret),
             <<from, ret>> \in {<<"flush", "select">>, <<"finalFlush", "stopped">>}
      PROVE  BatchBounds' /\ ChannelBounds'
  BY <1>5 DEF FlushEmpty
<1>6. ASSUME NEW from, NEW sent, FlushCopy(from, sent),
             <<from, sent>> \in {<<"flush", "send">>, <<"finalFlush", "finalSend">>}
      PROVE  BatchBounds' /\ ChannelBounds'
  <2>1. Len(buffer) \in 1..BatchSize
    BY <1>6 DEF FlushCopy, TypeOK
  <2> QED
    BY <1>6, <2>1 DEF FlushCopy
<1>7. ASSUME NEW sent, NEW ret, FlushSend(sent, ret),
             <<sent, ret>> \in {<<"send", "select">>, <<"finalSend", "stopped">>}
      PROVE  BatchBounds' /\ ChannelBounds'
  <2>1. Len(out) \in 1..BatchSize /\ buffer = << >>
    BY <1>7 DEF FlushSend
  <2>2. /\ \A i \in DOMAIN batches' : Len(batches'[i]) \in 1..BatchSize
        /\ Len(batches') <= BatchesCap
    <3>1. CASE batches' = batches
      BY <3>1
    <3>2. CASE Len(batches) < BatchesCap /\ batches' = Append(batches, out)
      BY <2>1, <3>2 DEF TypeOK
    <3> QED
      BY <1>7, <3>1, <3>2 DEF FlushSend
  <2>3. UNCHANGED <<buffer, inChan>> /\ out' = << >> /\ bpc' = ret
    BY <1>7 DEF FlushSend
  <2>4. Len(buffer) = 0
    BY <2>1
  <2> QED
    BY <1>7, <2>1, <2>2, <2>3, <2>4
<1>8. CASE Consume
  <2>1. /\ Len(batches') = Len(batches) - 1
        /\ DOMAIN batches' = 1..(Len(batches) - 1)
        /\ DOMAIN batches = 1..Len(batches)
        /\ Len(batches) \in Nat
        /\ \A i \in 1..(Len(batches) - 1) : batches'[i] = batches[i + 1]
    <3>1. batches \in Seq(Seq(1..MaxEvents)) /\ batches # << >> /\ batches' = Tail(batches)
      BY <1>8 DEF Consume, TypeOK
    <3> QED
      BY <3>1, HeadTailProperties
  <2>2. Len(batches') <= BatchesCap
    BY <2>1
  <2>3. ASSUME NEW i \in DOMAIN batches' PROVE Len(batches'[i]) \in 1..BatchSize
    <3>1. i + 1 \in DOMAIN batches /\ batches'[i] = batches[i + 1]
      BY <2>1, <2>3
    <3> QED
      BY <3>1
  <2> QED
    BY <1>8, <2>2, <2>3 DEF Consume
<1>9. CASE Cancel
  BY <1>9 DEF Cancel
<1>10. CASE UNCHANGED vars
  BY <1>10 DEF vars
<1> QED
  BY <1>1, <1>2, <1>3, <1>4, <1>5, <1>6, <1>7, <1>8, <1>9, <1>10
     DEF Next, Run, Flush, FinalFlush

(* A batch has between 1 and BatchSize events and no channel overflows,    *)
(* whatever the interleaving of the ticker, the producers, the consumer    *)
(* and the cancellation.                                                   *)
THEOREM BoundsCorrect == Spec => [](BatchBounds /\ ChannelBounds)
<1>1. Init => BatchBounds /\ ChannelBounds
  BY DEF Init, BatchBounds, ChannelBounds
<1> QED
  BY <1>1, TypeCorrect, BoundsStep, PTL DEF Spec
-----------------------------------------------------------------------------
(* Order.  FifoOrder is inductive with the types: an event only ever moves *)
(* from the front of a queue to the back of the next one.                  *)

(* Every step keeps the four parts of the queue increasing and before      *)
(* each other: Submit appends the greatest number so far, Receive and      *)
(* Take move a head, a flush moves a part as a whole.                      *)
LEMMA FifoStep == TypeOK /\ FifoOrder /\ [Next]_vars => FifoOrder'
<1> SUFFICES ASSUME TypeOK, FifoOrder, [Next]_vars PROVE FifoOrder'
  OBVIOUS
<1>0. /\ inChan \in Seq(Nat) /\ buffer \in Seq(Nat) /\ out \in Seq(Nat)
      /\ submitted \in Nat
      /\ batches \in Seq(Seq(Nat))
  <2>1. 1..MaxEvents \subseteq Nat
    OBVIOUS
  <2>2. Seq(1..MaxEvents) \subseteq Seq(Nat)
    BY <2>1, SeqMonotonic
  <2>3. Seq(Seq(1..MaxEvents)) \subseteq Seq(Seq(Nat))
    BY <2>2, SeqMonotonic
  <2> QED
    BY <2>2, <2>3 DEF TypeOK
<1> USE DEF FifoOrder
<1>1. CASE Submit
  <2> DEFINE x == submitted + 1
             a == Append(inChan, x)
  <2>1. /\ submitted \in Nat /\ x \in Nat /\ x - 1 = submitted
        /\ submitted' = x /\ submitted < x
    BY <1>0, <1>1 DEF Submit
  <2>2. UNCHANGED <<buffer, out, batches>> /\ (inChan' = inChan \/ inChan' = a)
    BY <1>1 DEF Submit
  <2> HIDE DEF x
  <2>3. \A s \in Seq(Nat) : UpTo(s, submitted) =>
          UpTo(s, x) /\ \A j \in DOMAIN s : s[j] < x
    BY <2>1 DEF UpTo
  <2>4. StrictlyIncreasing(a) /\ UpTo(a, x)
    BY <1>0, <2>1, <2>3, AppendOrder
  <2>5. Before(out, a) /\ Before(buffer, a)
    BY <1>0, <2>1, <2>3, AppendOrder
  <2>6. \A i \in DOMAIN batches : Before(batches[i], a) /\ UpTo(batches[i], x)
    BY <1>0, <2>1, <2>3, AppendOrder
  <2>7. UpTo(out, x) /\ UpTo(buffer, x) /\ UpTo(inChan, x)
    BY <1>0, <2>3
  <2> HIDE DEF a
  <2>8. CASE inChan' = inChan
    BY <2>1, <2>2, <2>6, <2>7, <2>8
  <2>9. CASE inChan' = a
    BY <2>1, <2>2, <2>4, <2>5, <2>6, <2>7, <2>9
  <2> QED
    BY <2>2, <2>8, <2>9
<1>2. CASE Receive
  <2> DEFINE h == Head(inChan)
             r == Tail(inChan)
             a == Append(buffer, h)
  <2>1. /\ inChan # << >> /\ inChan' = r /\ buffer' = a
        /\ UNCHANGED <<submitted, out, batches>>
    BY <1>2 DEF Receive
  <2>2. h \in Nat /\ r \in Seq(Nat)
    BY <1>0, <2>1, HeadTailProperties
  <2>3. StrictlyIncreasing(r) /\ UpTo(r, submitted) /\ h <= submitted
        /\ \A j \in DOMAIN r : h < r[j]
    BY <1>0, <2>1, TailOrder
  <2>4. /\ Before(out, r) /\ \A j \in DOMAIN out : out[j] < h
        /\ Before(buffer, r) /\ \A j \in DOMAIN buffer : buffer[j] < h
        /\ \A i \in DOMAIN batches :
             Before(batches[i], r) /\ \A j \in DOMAIN batches[i] : batches[i][j] < h
    BY <1>0, <2>1, TailOrder
  <2> HIDE DEF h, r
  <2>5. UpTo(buffer, h - 1)
    <3> SUFFICES ASSUME NEW j \in DOMAIN buffer PROVE buffer[j] <= h - 1
      BY DEF UpTo
    <3>1. buffer[j] \in Nat /\ buffer[j] < h
      BY <1>0, <2>4
    <3> QED
      BY <2>2, <3>1
  <2>6. StrictlyIncreasing(a) /\ UpTo(a, submitted)
    BY <1>0, <2>2, <2>3, <2>5, AppendOrder
  <2>7. Before(a, r) /\ Before(out, a)
    BY <1>0, <2>2, <2>3, <2>4, AppendOrder
  <2>8. \A i \in DOMAIN batches : Before(batches[i], a)
    BY <1>0, <2>2, <2>4, AppendOrder
  <2> HIDE DEF a
  <2> QED
    BY <2>1, <2>3, <2>4, <2>6, <2>7, <2>8
<1>3. CASE TickerFires
  BY <1>3 DEF TickerFires
<1>4. CASE Done
  BY <1>4 DEF Done
<1>5. ASSUME NEW from, NEW ret, FlushEmpty(from, ret) PROVE FifoOrder'
  BY <1>5 DEF FlushEmpty
<1>6. ASSUME NEW from, NEW sent, FlushCopy(from, sent) PROVE FifoOrder'
  <2>1. /\ out' = buffer /\ buffer' = << >>
        /\ UNCHANGED <<submitted, inChan, batches>>
    BY <1>6 DEF FlushCopy
  <2> QED
    BY <2>1, EmptyOrder
<1>7. ASSUME NEW sent, NEW ret, FlushSend(sent, ret) PROVE FifoOrder'
  <2>1. /\ UNCHANGED <<submitted, buffer, inChan>> /\ out' = << >>
        /\ batches' = batches \/ batches' = Append(batches, out)
    BY <1>7 DEF FlushSend
  <2>2. CASE batches' = batches
    BY <2>1, <2>2, EmptyOrder
  <2>3. CASE batches' = Append(batches, out)
    <3> DEFINE n == Len(batches)
               c == batches'
    <3>1. /\ n \in Nat /\ DOMAIN batches = 1..n
          /\ DOMAIN c = 1..(n + 1)
          /\ \A k \in 1..n : c[k] = batches[k]
          /\ c[n + 1] = out
      BY <1>0, <2>3
    <3> HIDE DEF c, n
    <3>2. \A k \in DOMAIN c :
            (k \in DOMAIN batches /\ c[k] = batches[k]) \/ (k = n + 1 /\ c[k] = out)
      BY <3>1
    <3>3. ASSUME NEW i \in DOMAIN c, NEW j \in DOMAIN c, i < j
          PROVE  Before(c[i], c[j])
      <4>1. i \in DOMAIN batches /\ c[i] = batches[i]
        BY <3>1, <3>3
      <4>2. CASE j \in DOMAIN batches /\ c[j] = batches[j]
        BY <3>3, <4>1, <4>2
      <4>3. CASE c[j] = out
        BY <4>1, <4>3
      <4> QED
        BY <3>2, <4>2, <4>3
    <3>4. \A i \in DOMAIN c : /\ StrictlyIncreasing(c[i]) /\ UpTo(c[i], submitted)
                              /\ Before(c[i], buffer) /\ Before(c[i], inChan)
                              /\ Before(c[i], << >>)
      BY <3>2, EmptyOrder
    <3> QED
      BY <2>1, <3>3, <3>4, EmptyOrder DEF c
  <2> QED
    BY <2>1, <2>2, <2>3
<1>8. CASE Consume
  <2> DEFINE n == Len(batches)
             c == batches'
  <2>1. /\ n \in Nat /\ DOMAIN batches = 1..n
        /\ DOMAIN c = 1..(n - 1)
        /\ \A k \in 1..(n - 1) : c[k] = batches[k + 1]
    BY <1>0, <1>8, HeadTailProperties DEF Consume
  <2>2. UNCHANGED <<submitted, inChan, buffer, out>>
    BY <1>8 DEF Consume
  <2> HIDE DEF c, n
  <2>3. \A k \in DOMAIN c : k \in Nat /\ k + 1 \in DOMAIN batches /\ c[k] = batches[k + 1]
    BY <2>1
  <2>4. \A i, j \in DOMAIN c : i < j => Before(c[i], c[j])
    BY <2>3
  <2> QED
    BY <2>2, <2>3, <2>4 DEF c
<1>9. CASE Cancel
  BY <1>9 DEF Cancel
<1>10. CASE UNCHANGED vars
  BY <1>10 DEF vars
<1> QED
  BY <1>1, <1>2, <1>3, <1>4, <1>5, <1>6, <1>7, <1>8, <1>9, <1>10
     DEF Next, Run, Flush, FinalFlush

(* Dropping at a full channel never reorders nor duplicates an event.      *)
THEOREM FifoCorrect == Spec => []FifoOrder
<1>1. Init => FifoOrder
  BY EmptyOrder DEF Init, FifoOrder
<1> QED
  BY <1>1, TypeCorrect, FifoStep, PTL DEF Spec
-----------------------------------------------------------------------------
(* The pipeline.                                                           *)

(* The batcher of the pipeline is the one of EventBatcher: the exporter    *)
(* only takes from its channel and the network does not touch it.          *)
LEMMA StepRefines == [PipelineNext]_pipelineVars => [Next]_vars
<1> SUFFICES ASSUME [PipelineNext]_pipelineVars PROVE [Next]_vars
  OBVIOUS
<1>1. CASE SignalCancels
  BY <1>1 DEF SignalCancels, Next
<1>2. CASE SourceSubmits
  BY <1>2 DEF SourceSubmits, Next
<1>3. CASE BatcherStep
  BY <1>3 DEF BatcherStep, Next
<1>4. CASE ExporterStep
  <2>1. CASE Exp!Take
    BY <1>4, <2>1 DEF ExporterStep, Exp!Take, batcherOnly, Next, Consume
  <2>2. CASE Exp!Done \/ Exp!Post \/ Exp!ReplyOk \/ Exp!Fail
    BY <1>4, <2>2
       DEF ExporterStep, Exp!Done, Exp!Post, Exp!ReplyOk, Exp!Fail, batcherOnly, vars
  <2> QED
    BY <1>4, <2>1, <2>2 DEF ExporterStep, Exp!Run
<1>5. CASE NetworkStep
  BY <1>5 DEF NetworkStep, Exp!Network, Exp!ServerIngests, Exp!RequestLost, batcherOnly, vars
<1>6. CASE UNCHANGED pipelineVars
  BY <1>6 DEF pipelineVars, batcherOnly, vars
<1> QED
  BY <1>1, <1>2, <1>3, <1>4, <1>5, <1>6 DEF PipelineNext

(* The batcher inside the agent, whose consumer is the exporter and whose  *)
(* cancellation is the signal of main, behaves as the batcher of           *)
(* EventBatcher does.                                                      *)
THEOREM PipelineRefines == PipelineSpec => Spec
<1>1. PipelineInit => Init
  BY DEF PipelineInit
<1> QED
  BY <1>1, StepRefines, PTL DEF PipelineSpec, Spec

(* So whatever holds of the batcher alone holds of it in the agent.        *)
THEOREM BatcherCorrect == PipelineSpec => [](TypeOK /\ BatchBounds /\ FifoOrder)
  BY PipelineRefines, TypeCorrect, BoundsCorrect, FifoCorrect, PTL
-----------------------------------------------------------------------------
(* Types.                                                                  *)

(* The steps of exporter and network keep their types; those of the        *)
(* batcher leave both alone.                                               *)
LEMMA PipelineTypeStep ==
  PipelineTypeOK /\ TypeOK' /\ [PipelineNext]_pipelineVars => PipelineTypeOK'
<1> SUFFICES ASSUME PipelineTypeOK, TypeOK', [PipelineNext]_pipelineVars
             PROVE  PipelineTypeOK'
  OBVIOUS
<1> USE DEF PipelineTypeOK
<1>1. CASE UNCHANGED exporterOnly
  BY <1>1 DEF exporterOnly
<1>2. CASE Exp!Take
  <2>1. inflight' \in Seq(1..MaxEvents)
    <3>1. batches \in Seq(Seq(1..MaxEvents)) /\ batches # << >> /\ inflight' = Head(batches)
      BY <1>2 DEF Exp!Take, TypeOK
    <3> QED
      BY <3>1, HeadTailProperties
  <2> QED
    BY <1>2, <2>1 DEF Exp!Take, Exp!EpcValues
<1>3. CASE Exp!Done \/ Exp!Post \/ Exp!ReplyOk \/ Exp!Fail
  <2>1. inflight' \in Seq(1..MaxEvents)
    <3>1. inflight' = inflight \/ inflight' = << >>
      BY <1>3 DEF Exp!Done, Exp!Post, Exp!ReplyOk, Exp!Fail
    <3>2. << >> \in Seq(1..MaxEvents) /\ inflight \in Seq(1..MaxEvents)
      OBVIOUS
    <3> QED
      BY ONLY <3>1, <3>2
  <2>2. wire' \subseteq wire \cup {inflight} /\ UNCHANGED ingested
    BY <1>3 DEF Exp!Done, Exp!Post, Exp!ReplyOk, Exp!Fail
  <2>3. epc' \in Exp!EpcValues /\ warned' \in BOOLEAN
    BY <1>3 DEF Exp!Done, Exp!Post, Exp!ReplyOk, Exp!Fail, Exp!EpcValues
  <2> QED
    BY <2>1, <2>2, <2>3
<1>4. CASE Exp!ServerIngests
  <2>1. PICK b \in wire : ingested' = Append(ingested, b) /\ wire' = wire \ {b}
    BY <1>4 DEF Exp!ServerIngests
  <2>2. b \in Seq(1..MaxEvents)
    OBVIOUS
  <2>3. Append(ingested, b) \in Seq(Seq(1..MaxEvents))
    BY <2>2
  <2> QED
    BY <1>4, <2>1, <2>3 DEF Exp!ServerIngests
<1>5. CASE Exp!RequestLost
  BY <1>5 DEF Exp!RequestLost
<1>6. CASE UNCHANGED pipelineVars
  BY <1>6 DEF pipelineVars, exporterOnly
<1> QED
  BY <1>1, <1>2, <1>3, <1>4, <1>5, <1>6
     DEF PipelineNext, SignalCancels, SourceSubmits, BatcherStep, ExporterStep, NetworkStep,
         Exp!Run, Exp!Network

(* Every reachable state of the export path is well typed.                 *)
THEOREM PipelineTypeCorrect == PipelineSpec => []PipelineTypeOK
<1>1. PipelineInit => PipelineTypeOK
  <2> SUFFICES ASSUME PipelineInit PROVE PipelineTypeOK
    OBVIOUS
  <2>1. TypeOK
    BY TypeInit DEF PipelineInit
  <2>2. inflight \in Seq(1..MaxEvents) /\ ingested \in Seq(Seq(1..MaxEvents))
    BY DEF PipelineInit, Exp!ExporterInit
  <2> QED
    BY <2>1, <2>2 DEF PipelineInit, Exp!ExporterInit, Exp!EpcValues, PipelineTypeOK
<1> QED
  BY <1>1, PipelineTypeStep, BatcherCorrect, PTL DEF PipelineSpec
-----------------------------------------------------------------------------
(* Where events are.                                                       *)

(* The events in the batcher, and the batches that have left the agent.    *)
InBatcher ==
  Range(inChan) \cup Range(buffer) \cup Range(out)
    \cup UNION {Range(b) : b \in Range(batches)}
Sent == wire \cup Range(ingested)

(* Appending adds one element to the set of elements.                      *)
LEMMA RangeAppend ==
  ASSUME NEW S, NEW s \in Seq(S), NEW x \in S
  PROVE  Range(Append(s, x)) = Range(s) \cup {x}
<1>1. /\ Len(s) \in Nat /\ DOMAIN s = 1..Len(s)
      /\ DOMAIN Append(s, x) = 1..(Len(s) + 1)
      /\ \A i \in 1..Len(s) : Append(s, x)[i] = s[i]
      /\ Append(s, x)[Len(s) + 1] = x
  OBVIOUS
<1> QED
  BY <1>1 DEF Range

(* The elements of a queue are its head and those of the rest.             *)
LEMMA RangeTail ==
  ASSUME NEW S, NEW s \in Seq(S), s # << >>
  PROVE  Range(s) = {Head(s)} \cup Range(Tail(s))
<1>1. /\ Len(s) \in Nat \ {0} /\ DOMAIN s = 1..Len(s)
      /\ DOMAIN Tail(s) = 1..(Len(s) - 1)
      /\ \A i \in 1..(Len(s) - 1) : Tail(s)[i] = s[i + 1]
      /\ Head(s) = s[1]
  BY HeadTailProperties
<1>2. \A i \in 2..Len(s) : i - 1 \in 1..(Len(s) - 1) /\ Tail(s)[i - 1] = s[i]
  BY <1>1
<1>3. Range(s) \subseteq {Head(s)} \cup Range(Tail(s))
  <2> SUFFICES ASSUME NEW i \in DOMAIN s PROVE s[i] \in {Head(s)} \cup Range(Tail(s))
    BY DEF Range
  <2>1. CASE i = 1
    BY <1>1, <2>1
  <2>2. CASE i \in 2..Len(s)
    BY <1>1, <1>2, <2>2 DEF Range
  <2> QED
    BY <1>1, <2>1, <2>2
<1>4. {Head(s)} \cup Range(Tail(s)) \subseteq Range(s)
  BY <1>1 DEF Range
<1> QED
  BY <1>3, <1>4

(* An empty queue has no elements.                                         *)
LEMMA RangeEmpty == Range(<< >>) = {}
  BY DEF Range

(* A step of the source, the batcher or the signal adds at most the event  *)
(* that has just been submitted, and lets none disappear that it does not  *)
(* drop.                                                                   *)
LEMMA BatcherMoves ==
  ASSUME TypeOK, BatchBounds, Submit \/ Run \/ Cancel
  PROVE  /\ submitted <= submitted'
         /\ \A e \in InBatcher' : e \in InBatcher \/ (e = submitted' /\ submitted < e)
         /\ InBatcher \subseteq InBatcher' \cup dropped'
         /\ dropped \subseteq dropped'
         /\ submitted' = submitted
              \/ (submitted' = submitted + 1 /\ submitted' \in InBatcher' \cup dropped')
<1> DEFINE Goal ==
         /\ submitted <= submitted'
         /\ \A e \in InBatcher' : e \in InBatcher \/ (e = submitted' /\ submitted < e)
         /\ InBatcher \subseteq InBatcher' \cup dropped'
         /\ dropped \subseteq dropped'
         /\ submitted' = submitted
              \/ (submitted' = submitted + 1 /\ submitted' \in InBatcher' \cup dropped')
<1>0. /\ submitted \in Nat
      /\ inChan \in Seq(1..MaxEvents) /\ buffer \in Seq(1..MaxEvents)
      /\ out \in Seq(1..MaxEvents) /\ batches \in Seq(Seq(1..MaxEvents))
  BY DEF TypeOK
<1>1. CASE Submit
  <2>1. submitted' \in 1..MaxEvents /\ submitted' = submitted + 1
    BY <1>1, EventBatcherAssumption DEF EventBatcherAssumption, Submit, TypeOK
  <2>2. Range(Append(inChan, submitted')) = Range(inChan) \cup {submitted'}
    <3>1. inChan \in Seq(Events) /\ submitted' \in Events
      BY <1>0, <2>1 DEF Events
    <3> QED
      BY <3>1, RangeAppend
  <2>3. UNCHANGED <<buffer, out, batches>>
    BY <1>1 DEF Submit
  <2>4. \/ Range(inChan') = Range(inChan) \cup {submitted'} /\ dropped' = dropped
        \/ inChan' = inChan /\ dropped' = dropped \cup {submitted'}
    BY <1>1, <2>1, <2>2 DEF Submit
  <2>5. submitted < submitted'
    BY <1>0, <2>1
  <2>6. CASE Range(inChan') = Range(inChan) \cup {submitted'} /\ dropped' = dropped
    <3>1. InBatcher' = InBatcher \cup {submitted'}
      BY <2>3, <2>6 DEF InBatcher
    <3> QED
      BY <1>0, <2>1, <2>5, <2>6, <3>1
  <2>7. CASE inChan' = inChan /\ dropped' = dropped \cup {submitted'}
    <3>1. InBatcher' = InBatcher
      BY <2>3, <2>7 DEF InBatcher
    <3> QED
      BY <1>0, <2>1, <2>5, <2>7, <3>1
  <2> QED
    BY <2>4, <2>6, <2>7
<1>2. ASSUME UNCHANGED submitted, InBatcher' \subseteq InBatcher,
             InBatcher \subseteq InBatcher' \cup dropped', dropped \subseteq dropped'
      PROVE  Goal
  BY <1>0, <1>2
<1>3. CASE Receive
  <2>1. Range(inChan) = {Head(inChan)} \cup Range(inChan')
    BY <1>0, <1>3, RangeTail DEF Receive
  <2>2. Range(buffer') = Range(buffer) \cup {Head(inChan)}
    <3>1. Head(inChan) \in 1..MaxEvents
      BY <1>0, <1>3, HeadTailProperties DEF Receive
    <3> QED
      BY <1>0, <1>3, <3>1, RangeAppend DEF Receive
  <2>3. UNCHANGED <<submitted, out, batches, dropped>>
    BY <1>3 DEF Receive
  <2>4. InBatcher' = InBatcher
    BY <2>1, <2>2, <2>3 DEF InBatcher
  <2> QED
    BY <1>2, <2>3, <2>4
<1>4. CASE TickerFires \/ Done \/ Cancel
  <2>1. UNCHANGED <<submitted, inChan, buffer, out, batches, dropped>>
    BY <1>4 DEF TickerFires, Done, Cancel
  <2>2. InBatcher' = InBatcher
    BY <2>1 DEF InBatcher
  <2> QED
    BY <1>2, <2>1, <2>2
<1>5. ASSUME NEW from, NEW ret, FlushEmpty(from, ret) PROVE Goal
  <2>1. UNCHANGED <<submitted, inChan, buffer, out, batches, dropped>>
    BY <1>5 DEF FlushEmpty
  <2>2. InBatcher' = InBatcher
    BY <2>1 DEF InBatcher
  <2> QED
    BY <1>2, <2>1, <2>2
<1>6. ASSUME NEW from, NEW sent, FlushCopy(from, sent), from \notin {"send", "finalSend"}
      PROVE  Goal
  <2>1. /\ out' = buffer /\ buffer' = << >> /\ out = << >>
        /\ UNCHANGED <<submitted, inChan, batches, dropped>>
    BY <1>6 DEF FlushCopy, BatchBounds
  <2>2. InBatcher' = InBatcher
    BY <2>1, RangeEmpty DEF InBatcher
  <2> QED
    BY <1>2, <2>1, <2>2
<1>7. ASSUME NEW sent, NEW ret, FlushSend(sent, ret) PROVE Goal
  <2>1. out' = << >> /\ UNCHANGED <<submitted, inChan, buffer>>
    BY <1>7 DEF FlushSend
  <2>2. CASE batches' = Append(batches, out) /\ UNCHANGED dropped
    <3>1. Range(batches') = Range(batches) \cup {out}
      BY <1>0, <2>2, RangeAppend
    <3>2. InBatcher' = InBatcher
      BY <2>1, <3>1, RangeEmpty DEF InBatcher
    <3> QED
      BY <1>2, <2>1, <2>2, <3>2
  <2>3. CASE dropped' = dropped \cup Range(out) /\ UNCHANGED batches
    <3>1. InBatcher = InBatcher' \cup Range(out)
      BY <2>1, <2>3, RangeEmpty DEF InBatcher
    <3> QED
      BY <1>2, <2>1, <2>3, <3>1
  <2> QED
    BY <1>7, <2>2, <2>3 DEF FlushSend
<1> HIDE DEF Goal
<1>8. Goal
  BY <1>1, <1>3, <1>4, <1>5, <1>6, <1>7 DEF Run, Flush, FinalFlush, Goal
<1> QED
  BY <1>8 DEF Goal
(* Taking a batch from the channel takes the oldest events of the batcher. *)
LEMMA TakeMoves ==
  ASSUME PipelineTypeOK, BatchBounds, FifoOrder, Exp!Take, UNCHANGED batcherOnly
  PROVE  /\ inflight' # << >>
         /\ InBatcher = InBatcher' \cup Range(inflight')
         /\ \A x \in Range(inflight'), y \in InBatcher' : x < y
         /\ \A x \in Range(inflight') : x <= submitted
<1> DEFINE h == Head(batches)
           t == Tail(batches)
<1>1. batches \in Seq(Seq(1..MaxEvents)) /\ batches # << >>
  BY DEF PipelineTypeOK, TypeOK, Exp!Take
<1>2. /\ inflight' = h /\ batches' = t
      /\ UNCHANGED <<submitted, inChan, buffer, out>>
  BY DEF Exp!Take, batcherOnly
<1>3. /\ h = batches[1] /\ 1 \in DOMAIN batches
      /\ \A i \in DOMAIN t : i + 1 \in DOMAIN batches /\ 1 < i + 1 /\ t[i] = batches[i + 1]
  BY <1>1, HeadTailProperties
<1>4. Range(batches) = {h} \cup Range(t)
  BY <1>1, RangeTail
<1> HIDE DEF h, t
<1>5. h # << >>
  <2>1. Len(h) \in 1..BatchSize
    BY <1>3 DEF BatchBounds
  <2> QED
    BY <2>1
<1>6. InBatcher = InBatcher' \cup Range(h)
  BY <1>2, <1>4 DEF InBatcher
<1>7. /\ UpTo(h, submitted) /\ Before(h, out) /\ Before(h, buffer) /\ Before(h, inChan)
      /\ \A i \in DOMAIN t : Before(h, t[i])
  BY <1>3 DEF FifoOrder
<1>8. \A x \in Range(h), y \in InBatcher' : x < y
  <2> SUFFICES ASSUME NEW x \in Range(h), NEW y \in InBatcher' PROVE x < y
    OBVIOUS
  <2>1. CASE y \in Range(inChan) \cup Range(buffer) \cup Range(out)
    BY <1>7, <2>1 DEF Before, Range
  <2>2. CASE \E i \in DOMAIN t : y \in Range(t[i])
    BY <1>7, <2>2 DEF Before, Range
  <2>3. InBatcher' = Range(inChan) \cup Range(buffer) \cup Range(out)
                      \cup UNION {Range(b) : b \in Range(t)}
    BY <1>2 DEF InBatcher
  <2>4. \A b \in Range(t) : \E i \in DOMAIN t : b = t[i]
    BY DEF Range
  <2> QED
    BY <2>1, <2>2, <2>3, <2>4
<1>9. \A x \in Range(h) : x <= submitted
  BY <1>7 DEF UpTo, Range
<1> QED
  BY <1>2, <1>5, <1>6, <1>8, <1>9
-----------------------------------------------------------------------------
(* Losses.                                                                 *)

(* The exporter has a batch at hand exactly while it is sending it.        *)
HandFull == inflight # << >> <=> epc \in {"post", "await"}

Accounted ==
  dropped \cup InBatcher \cup Range(inflight) \cup UNION {Range(b) : b \in Range(ingested)}

(* EventsAccounted in the terms of the proof: Accounted gathers what was   *)
(* dropped, is in the agent, or was ingested.                              *)
LEMMA LossAccounted == EventsAccounted <=> (~warned => 1..submitted \subseteq Accounted)
  BY DEF EventsAccounted, Accounted, InBatcher

(* No step lets an event disappear unless it drops it, ingests it or logs  *)
(* a warning. HandFull is needed for a reply: what it lets go of was       *)
(* sent.                                                                   *)
LEMMA LossStep ==
  PipelineTypeOK /\ BatchBounds /\ FifoOrder /\ HandFull /\ EventsAccounted
    /\ [PipelineNext]_pipelineVars => HandFull' /\ EventsAccounted'
<1> SUFFICES ASSUME PipelineTypeOK, BatchBounds, FifoOrder, HandFull, EventsAccounted,
                    [PipelineNext]_pipelineVars
             PROVE  HandFull' /\ EventsAccounted'
  OBVIOUS
<1> DEFINE Kept == ~warned => 1..submitted \subseteq Accounted
<1>0. Kept /\ submitted \in Nat /\ (Kept' <=> EventsAccounted')
  <2>1. Kept' <=> EventsAccounted'
    BY DEF EventsAccounted, Accounted, InBatcher
  <2>2. submitted \in Nat
    BY DEF PipelineTypeOK, TypeOK
  <2> QED
    BY <2>1, <2>2, LossAccounted
<1>1. CASE (Submit \/ Run \/ Cancel) /\ UNCHANGED exporterOnly
  <2>1. UNCHANGED <<epc, inflight, ingested, warned>>
    BY <1>1 DEF exporterOnly
  <2>2. /\ InBatcher \subseteq InBatcher' \cup dropped' /\ dropped \subseteq dropped'
        /\ submitted' = submitted
              \/ (submitted' = submitted + 1 /\ submitted' \in InBatcher' \cup dropped')
    BY <1>1, BatcherMoves DEF PipelineTypeOK
  <2>3. Accounted \subseteq Accounted'
    BY <2>1, <2>2 DEF Accounted
  <2>4. 1..submitted' \subseteq 1..submitted \cup Accounted'
    BY <1>0, <2>2 DEF Accounted
  <2> QED
    BY <1>0, <2>1, <2>3, <2>4 DEF HandFull
<1>2. CASE Exp!Take /\ UNCHANGED batcherOnly
  <2>1. /\ inflight = << >> /\ inflight' # << >> /\ epc' = "post"
        /\ UNCHANGED <<submitted, dropped, ingested, warned>>
    BY <1>2, TakeMoves DEF Exp!Take, batcherOnly, HandFull
  <2>2. InBatcher = InBatcher' \cup Range(inflight')
    BY <1>2, TakeMoves
  <2>3. Accounted' = Accounted
    BY <2>1, <2>2, RangeEmpty DEF Accounted
  <2> QED
    BY <1>0, <2>1, <2>3 DEF HandFull
<1>3. CASE (Exp!Done \/ Exp!Post) /\ UNCHANGED batcherOnly
  <2>1. /\ UNCHANGED <<submitted, dropped, inChan, buffer, out, batches, inflight, ingested, warned>>
        /\ epc \in {"post", "await"} <=> epc' \in {"post", "await"}
    BY <1>3 DEF Exp!Done, Exp!Post, batcherOnly
  <2>2. Accounted' = Accounted
    BY <2>1 DEF Accounted, InBatcher
  <2> QED
    BY <1>0, <2>1, <2>2 DEF HandFull
<1>4. CASE Exp!ReplyOk /\ UNCHANGED batcherOnly
  <2>1. /\ UNCHANGED <<submitted, dropped, inChan, buffer, out, batches, ingested, warned>>
        /\ epc' = "select" /\ inflight' = << >> /\ inflight \in Range(ingested)
    BY <1>4 DEF Exp!ReplyOk, batcherOnly, Range
  <2>2. Accounted \subseteq Accounted'
    BY <2>1 DEF Accounted, InBatcher
  <2> QED
    BY <1>0, <2>1, <2>2 DEF HandFull
<1>5. CASE Exp!Fail /\ UNCHANGED batcherOnly
  BY <1>0, <1>5 DEF Exp!Fail, HandFull
<1>6. CASE Exp!ServerIngests /\ UNCHANGED batcherOnly
  <2>1. PICK b \in wire : ingested' = Append(ingested, b)
    BY <1>6 DEF Exp!ServerIngests
  <2>2. ingested \in Seq(Seq(1..MaxEvents)) /\ b \in Seq(1..MaxEvents)
    BY DEF PipelineTypeOK
  <2>3. Range(ingested') = Range(ingested) \cup {b}
    BY <2>1, <2>2, RangeAppend
  <2>4. UNCHANGED <<submitted, dropped, inChan, buffer, out, batches, epc, inflight, warned>>
    BY <1>6 DEF Exp!ServerIngests, batcherOnly
  <2>5. Accounted \subseteq Accounted'
    BY <2>3, <2>4 DEF Accounted, InBatcher
  <2> QED
    BY <1>0, <2>4, <2>5 DEF HandFull
<1>7. CASE (Exp!RequestLost /\ UNCHANGED batcherOnly) \/ UNCHANGED pipelineVars
  <2>1. UNCHANGED <<submitted, dropped, inChan, buffer, out, batches, epc, inflight, ingested, warned>>
    BY <1>7 DEF Exp!RequestLost, batcherOnly, pipelineVars, exporterOnly
  <2>2. Accounted' = Accounted
    BY <2>1 DEF Accounted, InBatcher
  <2> QED
    BY <1>0, <2>1, <2>2 DEF HandFull
<1> QED
  BY <1>1, <1>2, <1>3, <1>4, <1>5, <1>6, <1>7
     DEF PipelineNext, SignalCancels, SourceSubmits, BatcherStep, ExporterStep, NetworkStep,
         Exp!Run, Exp!Network

(* While no send has failed, every event that was submitted is accounted   *)
(* for, wherever source, batcher, exporter and network interleave.         *)
THEOREM LossCorrect == PipelineSpec => []EventsAccounted
<1>1. PipelineInit => HandFull /\ EventsAccounted
  BY DEF PipelineInit, Init, Exp!ExporterInit, HandFull, EventsAccounted
<1> QED
  BY <1>1, LossStep, BatcherCorrect, PipelineTypeCorrect, PTL DEF PipelineSpec
-----------------------------------------------------------------------------
(* Order.  What has left the agent is older than what the exporter has at  *)
(* hand, unless it is that batch, and this is older than what the batcher  *)
(* holds; batches that have left never overlap, also those of requests     *)
(* given up.  Until a send fails only the batch at hand is on the wire.    *)

Precede(S, T) == \A x \in S, y \in T : x < y
Apart(s, t) == Precede(Range(s), Range(t)) \/ Precede(Range(t), Range(s))

Passed ==
  /\ \A x \in Range(inflight) : x <= submitted
  /\ Precede(Range(inflight), InBatcher)
  /\ \A b \in Sent :
       /\ b # << >>
       /\ \A x \in Range(b) : x <= submitted
       /\ Precede(Range(b), InBatcher)
       /\ (epc = "await" /\ b = inflight) \/ Precede(Range(b), Range(inflight))

OneByOne ==
  /\ \A b, c \in wire : b # c => Apart(b, c)
  /\ \A i, j \in DOMAIN ingested : i # j => Apart(ingested[i], ingested[j])
  /\ \A i \in DOMAIN ingested, b \in wire : Apart(ingested[i], b)

InOrder ==
  ~warned => /\ wire \subseteq {inflight} /\ (epc # "await" => wire = {})
             /\ OrderedUntilWarned

PathInv == HandFull /\ Passed /\ OneByOne /\ InOrder

(* The order of two queues is that of their sets of elements.              *)
LEMMA BeforeIsPrecede == \A s, t : Before(s, t) <=> Precede(Range(s), Range(t))
  BY DEF Before, Precede, Range

(* A queue that is not empty has an element.                               *)
LEMMA NonEmptyRange ==
  ASSUME NEW S, NEW s \in Seq(S), s # << >> PROVE Range(s) # {}
<1>1. 1 \in DOMAIN s
  OBVIOUS
<1> QED
  BY <1>1 DEF Range

(* The elements of a queue of events are numbers.                          *)
LEMMA NumbersInRange ==
  ASSUME NEW s \in Seq(1..MaxEvents) PROVE Range(s) \subseteq Nat
<1>1. Range(s) \in SUBSET (1..MaxEvents)
  BY RangeOfSeq
<1> QED
  BY <1>1

(* Every step keeps the four parts of PathInv.                             *)
LEMMA PathStep ==
  PipelineTypeOK /\ BatchBounds /\ FifoOrder /\ PathInv /\ HandFull'
    /\ [PipelineNext]_pipelineVars => PathInv'
<1> SUFFICES ASSUME PipelineTypeOK, BatchBounds, FifoOrder, PathInv, HandFull',
                    [PipelineNext]_pipelineVars
             PROVE  Passed' /\ OneByOne' /\ InOrder'
  BY DEF PathInv
<1> USE DEF PathInv
<1>0. /\ submitted \in Nat /\ Range(inflight) \subseteq Nat
      /\ \A b \in Sent : b \in Seq(1..MaxEvents) /\ Range(b) \subseteq Nat
      /\ ingested \in Seq(Seq(1..MaxEvents))
  <2>1. \A b \in Seq(1..MaxEvents) : Range(b) \subseteq Nat
    BY NumbersInRange
  <2>2. Range(ingested) \subseteq Seq(1..MaxEvents)
    BY DEF PipelineTypeOK, Range
  <2> QED
    BY <2>1, <2>2 DEF PipelineTypeOK, TypeOK, Sent
<1>1. CASE (Submit \/ Run \/ Cancel) /\ UNCHANGED exporterOnly
  <2>1. UNCHANGED <<epc, inflight, wire, ingested, warned>> /\ Sent' = Sent
    BY <1>1 DEF exporterOnly, Sent
  <2>2. /\ submitted <= submitted' /\ submitted' \in Nat
        /\ \A e \in InBatcher' : e \in InBatcher \/ (e = submitted' /\ submitted < e)
    BY <1>0, <1>1, BatcherMoves DEF PipelineTypeOK
  <2>3. ASSUME NEW S \in SUBSET Nat, \A x \in S : x <= submitted, Precede(S, InBatcher)
        PROVE  (\A x \in S : x <= submitted') /\ Precede(S, InBatcher')
    BY <1>0, <2>2, <2>3 DEF Precede
  <2>4. Passed'
    BY <1>0, <2>1, <2>3 DEF Passed
  <2> QED
    BY <2>1, <2>4 DEF OneByOne, InOrder, OrderedUntilWarned
<1>2. CASE Exp!Take /\ UNCHANGED batcherOnly
  <2>1. /\ epc = "select" /\ epc' = "post" /\ inflight = << >>
        /\ UNCHANGED <<submitted, wire, ingested, warned>> /\ Sent' = Sent
    BY <1>2 DEF Exp!Take, batcherOnly, Sent, HandFull
  <2>2. /\ InBatcher = InBatcher' \cup Range(inflight')
        /\ Precede(Range(inflight'), InBatcher')
        /\ \A x \in Range(inflight') : x <= submitted
    BY <1>2, TakeMoves DEF Precede
  <2>3. \A S : Precede(S, InBatcher) => Precede(S, InBatcher') /\ Precede(S, Range(inflight'))
    BY <2>2 DEF Precede
  <2>4. Passed'
    BY <2>1, <2>2, <2>3 DEF Passed
  <2> QED
    BY <2>1, <2>4 DEF OneByOne, InOrder, OrderedUntilWarned
<1>3. CASE Exp!Post /\ UNCHANGED batcherOnly
  <2>1. /\ epc = "post" /\ epc' = "await" /\ wire' = wire \cup {inflight}
        /\ UNCHANGED <<submitted, inflight, ingested, warned>> /\ InBatcher' = InBatcher
        /\ inflight # << >>
    BY <1>3 DEF Exp!Post, batcherOnly, InBatcher, HandFull
  <2>2. Sent' = Sent \cup {inflight} /\ \A b \in Sent : Precede(Range(b), Range(inflight))
    BY <2>1 DEF Sent, Passed
  <2>3. Passed'
    BY <2>1, <2>2 DEF Passed
  <2>4. OneByOne'
    <3>1. \A b \in wire : Apart(b, inflight) /\ Apart(inflight, b)
      BY <2>2 DEF Sent, Apart
    <3>2. \A i \in DOMAIN ingested : Apart(ingested[i], inflight)
      BY <2>2 DEF Sent, Apart, Range
    <3> QED
      BY <2>1, <3>1, <3>2 DEF OneByOne
  <2>5. InOrder'
    <3>1. \A i \in DOMAIN ingested : Before(ingested[i], inflight)
      BY <2>2, BeforeIsPrecede DEF Sent, Range
    <3> QED
      BY <2>1, <3>1 DEF InOrder, OrderedUntilWarned
  <2> QED
    BY <2>3, <2>4, <2>5
<1>4. CASE (Exp!ReplyOk \/ Exp!Fail \/ Exp!Done) /\ UNCHANGED batcherOnly
  <2>1. /\ inflight' = << >> /\ epc' # "await"
        /\ UNCHANGED <<submitted, wire, ingested>> /\ Sent' = Sent /\ InBatcher' = InBatcher
    BY <1>4 DEF Exp!ReplyOk, Exp!Fail, Exp!Done, batcherOnly, Sent, InBatcher, HandFull
  <2>2. Passed'
    BY <2>1, RangeEmpty DEF Passed, Precede
  <2>3. InOrder'
    <3>1. CASE Exp!Fail
      BY <3>1 DEF Exp!Fail, InOrder
    <3>2. CASE Exp!Done
      BY <2>1, <3>2 DEF Exp!Done, InOrder, OrderedUntilWarned
    <3>3. CASE Exp!ReplyOk /\ ~warned
      <4>1. PICK i \in DOMAIN ingested : ingested[i] = inflight
        BY <3>3 DEF Exp!ReplyOk
      <4>2. inflight \in Sent
        BY <4>1 DEF Sent, Range
      <4>3. Range(inflight) # {} /\ Range(inflight) \subseteq Nat
        BY <1>0, <4>2, NonEmptyRange DEF Passed
      <4>4. inflight \notin wire
        <5> SUFFICES ASSUME inflight \in wire PROVE FALSE
          OBVIOUS
        <5>1. Precede(Range(inflight), Range(inflight))
          BY <3>3, <4>1, BeforeIsPrecede DEF InOrder, OrderedUntilWarned
        <5> QED
          BY <4>3, <5>1 DEF Precede
      <4>5. wire = {}
        BY <3>3, <4>4 DEF InOrder
      <4> QED
        BY <2>1, <3>3, <4>5 DEF InOrder, OrderedUntilWarned
    <3>4. CASE Exp!ReplyOk /\ warned
      BY <3>4 DEF Exp!ReplyOk, InOrder
    <3> QED
      BY <1>4, <3>1, <3>2, <3>3, <3>4
  <2> QED
    BY <2>1, <2>2, <2>3 DEF OneByOne
<1>5. CASE Exp!ServerIngests /\ UNCHANGED batcherOnly
  <2>1. PICK b \in wire : ingested' = Append(ingested, b) /\ wire' = wire \ {b}
    BY <1>5 DEF Exp!ServerIngests
  <2>2. /\ UNCHANGED <<submitted, epc, inflight, warned>> /\ InBatcher' = InBatcher
    BY <1>5 DEF Exp!ServerIngests, batcherOnly, InBatcher
  <2>3. b \in Seq(1..MaxEvents)
    BY <1>0 DEF Sent
  <2>4. Range(ingested') = Range(ingested) \cup {b}
    BY <1>0, <2>1, <2>3, RangeAppend
  <2>5. Sent' = Sent
    BY <2>1, <2>4 DEF Sent
  <2>6. Passed'
    BY <2>2, <2>5 DEF Passed
  <2> DEFINE n == Len(ingested)
             g == ingested'
  <2>7. /\ n \in Nat /\ DOMAIN ingested = 1..n /\ DOMAIN g = 1..(n + 1)
        /\ \A i \in 1..n : g[i] = ingested[i]
        /\ g[n + 1] = b
    BY <1>0, <2>1, <2>3
  <2> HIDE DEF n, g
  <2>8. \A i \in DOMAIN g : (i \in DOMAIN ingested /\ g[i] = ingested[i])
                              \/ (i = n + 1 /\ g[i] = b)
    BY <2>7
  <2>9. \A s, t : Apart(s, t) => Apart(t, s)
    BY DEF Apart
  <2>10. OneByOne'
    <3>1. \A i \in DOMAIN ingested : Apart(ingested[i], b)
      BY DEF OneByOne
    <3>2. \A i, j \in DOMAIN g : i # j => Apart(g[i], g[j])
      BY <2>8, <2>9, <3>1 DEF OneByOne
    <3>3. \A i \in DOMAIN g, c \in wire' : Apart(g[i], c)
      BY <2>1, <2>8 DEF OneByOne
    <3> QED
      BY <2>1, <3>2, <3>3 DEF OneByOne, g
  <2>11. InOrder'
    <3> SUFFICES ASSUME ~warned PROVE wire' = {} /\ OrderedUntilWarned'
      BY <2>2 DEF InOrder
    <3>1. wire' = {} /\ \A i \in DOMAIN ingested : Before(ingested[i], b)
      BY <2>1 DEF InOrder, OrderedUntilWarned
    <3>2. ASSUME NEW i \in DOMAIN g, NEW j \in DOMAIN g, i < j
          PROVE  Before(g[i], g[j])
      <4>1. i \in DOMAIN ingested /\ g[i] = ingested[i]
        BY <2>7, <3>2
      <4> QED
        BY <2>8, <3>1, <3>2, <4>1 DEF InOrder, OrderedUntilWarned
    <3> QED
      BY <3>1, <3>2 DEF OrderedUntilWarned, g
  <2> QED
    BY <2>6, <2>10, <2>11
<1>6. CASE Exp!RequestLost /\ UNCHANGED batcherOnly
  <2>1. /\ wire' \subseteq wire /\ Sent' \subseteq Sent
        /\ UNCHANGED <<submitted, epc, inflight, ingested, warned>> /\ InBatcher' = InBatcher
    BY <1>6 DEF Exp!RequestLost, batcherOnly, InBatcher, Sent
  <2>2. Passed'
    BY <2>1 DEF Passed
  <2> QED
    BY <2>1, <2>2 DEF OneByOne, InOrder, OrderedUntilWarned
<1>7. CASE UNCHANGED pipelineVars
  BY <1>7 DEF pipelineVars, batcherOnly, exporterOnly, Passed, OneByOne, InOrder,
              OrderedUntilWarned, Sent, InBatcher
<1> QED
  BY <1>1, <1>2, <1>3, <1>4, <1>5, <1>6, <1>7
     DEF PipelineNext, SignalCancels, SourceSubmits, BatcherStep, ExporterStep, NetworkStep,
         Exp!Run, Exp!Network

(* PathInv holds of the agent.                                             *)
LEMMA PathInvariant == PipelineSpec => []PathInv
<1>1. PipelineInit => PathInv
  <2> SUFFICES ASSUME PipelineInit PROVE PathInv
    OBVIOUS
  <2>1. /\ inflight = << >> /\ wire = {} /\ ingested = << >> /\ epc = "select"
    BY DEF PipelineInit, Exp!ExporterInit
  <2>2. Range(inflight) = {} /\ Sent = {}
    BY <2>1, RangeEmpty DEF Sent
  <2> QED
    BY <2>1, <2>2 DEF PathInv, HandFull, Passed, OneByOne, InOrder, OrderedUntilWarned, Precede
<1>2. PipelineInit => EventsAccounted
  BY DEF PipelineInit, Init, EventsAccounted
<1>3. PathInv => HandFull
  BY DEF PathInv
<1> QED
  BY <1>1, <1>2, <1>3, LossStep, PathStep, BatcherCorrect, PipelineTypeCorrect, PTL
     DEF PipelineSpec

(* However late a request that was given up is processed, no event is      *)
(* counted twice.                                                          *)
THEOREM AtMostOnceCorrect == PipelineSpec => []AtMostOnce
<1>1. PipelineTypeOK /\ PathInv => AtMostOnce
  <2> SUFFICES ASSUME PipelineTypeOK, PathInv PROVE AtMostOnce
    OBVIOUS
  <2>1. \A i \in DOMAIN ingested : Range(ingested[i]) \subseteq Nat
    <3>1. \A i \in DOMAIN ingested : ingested[i] \in Seq(1..MaxEvents)
      BY DEF PipelineTypeOK
    <3> QED
      BY <3>1, NumbersInRange
  <2>2. \A s, t : Apart(s, t) /\ Range(s) \subseteq Nat => Range(s) \cap Range(t) = {}
    BY DEF Apart, Precede
  <2> QED
    BY <2>1, <2>2 DEF PathInv, OneByOne, AtMostOnce
<1> QED
  BY <1>1, PathInvariant, PipelineTypeCorrect, PTL

(* Until a send fails, batches are processed in the order they were formed.*)
THEOREM OrderCorrect == PipelineSpec => []OrderedUntilWarned
<1>1. PathInv => OrderedUntilWarned
  BY DEF PathInv, InOrder, OrderedUntilWarned
<1> QED
  BY <1>1, PathInvariant, PTL
-----------------------------------------------------------------------------
(* The refinement of LossyFifo.                                            *)

HIDE EventBatcherAssumption DEF EventBatcherAssumption

(* The four parts of the queue.                                            *)
LEMMA QueuedParts ==
  TypeOK => /\ FlattenSeq(batches) \in Seq(Events) /\ out \in Seq(Events)
            /\ buffer \in Seq(Events) /\ inChan \in Seq(Events)
            /\ FlattenSeq(batches) \o out \in Seq(Events)
            /\ FlattenSeq(batches) \o out \o buffer \in Seq(Events)
            /\ Queued \in Seq(Events)
<1> SUFFICES ASSUME TypeOK
             PROVE  /\ FlattenSeq(batches) \in Seq(Events) /\ out \in Seq(Events)
                    /\ buffer \in Seq(Events) /\ inChan \in Seq(Events)
                    /\ FlattenSeq(batches) \o out \in Seq(Events)
                    /\ FlattenSeq(batches) \o out \o buffer \in Seq(Events)
                    /\ Queued \in Seq(Events)
  OBVIOUS
<1>1. out \in Seq(Events) /\ buffer \in Seq(Events) /\ inChan \in Seq(Events)
  BY DEF TypeOK, Events
<1>2. FlattenSeq(batches) \in Seq(Events)
  BY FlattenType DEF TypeOK, Events
<1>3. \A s, t \in Seq(Events) : s \o t \in Seq(Events)
  BY ConcatProperties
<1> QED
  BY <1>1, <1>2, <1>3 DEF Queued

(* An event is offered.                                                    *)
LEMMA SubmitOffers ==
  ASSUME TypeOK, Submit, UNCHANGED inflight
  PROVE  Fifo!Offer
<1> DEFINE p == FlattenSeq(batches) \o out \o buffer
           x == submitted + 1
<1>1. p \in Seq(Events) /\ inChan \in Seq(Events)
  BY QueuedParts
<1>2. x \in Events /\ submitted' = x /\ UNCHANGED <<buffer, out, batches>>
  <2>1. submitted \in Nat /\ submitted < MaxEvents
    BY DEF Submit, TypeOK
  <2>2. x \in Events
    BY <2>1, EventBatcherAssumption DEF Events, EventBatcherAssumption
  <2> QED
    BY <2>2 DEF Submit
<1>3. Queued = p \o inChan /\ Queued' = p \o inChan'
  BY <1>2 DEF Queued
<1> HIDE DEF p, x
<1>4. CASE UNCHANGED inChan
  BY <1>2, <1>3, <1>4 DEF Fifo!Offer, x
<1>5. CASE inChan' = Append(inChan, x)
  <2>1. p \o inChan \in Seq(Events) /\ <<x>> \in Seq(Events)
    BY <1>1, <1>2, ConcatProperties
  <2>2. Append(inChan, x) = inChan \o <<x>> /\ Append(p \o inChan, x) = (p \o inChan) \o <<x>>
    BY <1>1, <1>2, <2>1, AppendIsConcat
  <2>3. (p \o inChan) \o <<x>> = p \o (inChan \o <<x>>)
    BY ONLY <1>1, <2>1, Regroup
  <2>4. Queued' = Append(Queued, x)
    BY <1>3, <1>5, <2>2, <2>3
  <2> QED
    BY <1>2, <2>4 DEF Fifo!Offer, x
<1> QED
  BY <1>4, <1>5 DEF Submit, x

(* Receiving an event and copying the buffer move events within the queue. *)
LEMMA ReceiveKeeps == ASSUME TypeOK, Receive PROVE UNCHANGED Queued
<1> DEFINE p == FlattenSeq(batches) \o out
           h == Head(inChan)
           t == Tail(inChan)
<1>1. /\ inChan # << >> /\ buffer' = Append(buffer, h) /\ inChan' = t
      /\ UNCHANGED <<out, batches>>
  BY DEF Receive
<1>2. p \in Seq(Events) /\ buffer \in Seq(Events) /\ inChan \in Seq(Events)
  BY QueuedParts
<1>3. h \in Events /\ t \in Seq(Events) /\ <<h>> \in Seq(Events) /\ inChan = <<h>> \o t
  BY <1>1, <1>2, HeadTailProperties
<1>4. Queued = (p \o buffer) \o inChan /\ Queued' = (p \o buffer') \o inChan'
  BY <1>1 DEF Queued
<1> HIDE DEF p, h, t
<1>5. Append(buffer, h) = buffer \o <<h>>
  BY <1>2, <1>3, AppendIsConcat
<1>6. (p \o buffer) \o <<h>> = p \o (buffer \o <<h>>)
  <2>1. p \in Seq(Events) /\ buffer \in Seq(Events) /\ <<h>> \in Seq(Events)
    BY <1>2, <1>3
  <2> QED
    BY ONLY <2>1, Regroup
<1>7. ((p \o buffer) \o <<h>>) \o t = (p \o buffer) \o (<<h>> \o t)
  <2>1. PICK q \in Seq(Events) : q = p \o buffer
    BY <1>2, ConcatProperties
  <2>2. q \in Seq(Events) /\ <<h>> \in Seq(Events) /\ t \in Seq(Events)
    BY <1>3
  <2>3. (q \o <<h>>) \o t = q \o (<<h>> \o t)
    BY ONLY <2>2, Regroup
  <2> QED
    BY <2>1, <2>3
<1> QED
  BY <1>1, <1>3, <1>4, <1>5, <1>6, <1>7

(* Copying the buffer under the lock moves it from one part of the queue   *)
(* to the next: the queue as a whole is unchanged.                         *)
LEMMA CopyKeeps ==
  ASSUME TypeOK, BatchBounds, NEW from, NEW sent, FlushCopy(from, sent),
         from \notin {"send", "finalSend"}
  PROVE  UNCHANGED Queued
<1> DEFINE f == FlattenSeq(batches)
<1>1. f \in Seq(Events) /\ buffer \in Seq(Events) /\ f \o buffer \in Seq(Events)
  BY QueuedParts, ConcatProperties
<1>2. /\ out = << >> /\ out' = buffer /\ buffer' = << >>
      /\ UNCHANGED <<inChan, batches>>
  BY DEF FlushCopy, BatchBounds
<1>3. Queued = f \o << >> \o buffer \o inChan /\ Queued' = f \o buffer \o << >> \o inChan
  BY <1>2 DEF Queued
<1> HIDE DEF f
<1>4. f \o << >> = f /\ f \o buffer \o << >> = f \o buffer
  BY <1>1, ConcatEmptySeq
<1> QED
  BY <1>3, <1>4

(* The send of a flush keeps the queue, or loses the batch out of its      *)
(* middle.                                                                 *)
LEMMA SendLoses ==
  ASSUME TypeOK, BatchBounds, NEW sent \in {"send", "finalSend"}, NEW ret,
         FlushSend(sent, ret), UNCHANGED inflight
  PROVE  UNCHANGED Queued \/ Fifo!Lose
<1> DEFINE f == FlattenSeq(batches)
           r == buffer \o inChan
<1>1. /\ f \in Seq(Events) /\ out \in Seq(Events) /\ buffer \in Seq(Events)
      /\ inChan \in Seq(Events) /\ f \o out \in Seq(Events) /\ Queued \in Seq(Events)
  BY QueuedParts
<1>2. out' = << >> /\ UNCHANGED <<submitted, buffer, inChan>>
  BY DEF FlushSend
<1>3. r \in Seq(Events)
  BY <1>1, ConcatProperties
<1>4. Queued = f \o out \o buffer \o inChan
      /\ Queued' = FlattenSeq(batches') \o << >> \o buffer \o inChan
  BY <1>2 DEF Queued
<1>5. CASE batches' = Append(batches, out)
  <2>1. FlattenSeq(batches') = f \o out
    BY <1>1, <1>5, FlattenAppend DEF TypeOK, Events
  <2> HIDE DEF f
  <2>2. (f \o out) \o << >> = f \o out
    BY <1>1, ConcatEmptySeq
  <2> QED
    BY <1>4, <2>1, <2>2
<1>6. CASE UNCHANGED batches
  <2> DEFINE m == Len(f)
             k == Len(out)
             q == Queued
  <2>1. Queued' = f \o << >> \o buffer \o inChan /\ UNCHANGED <<submitted, inflight>>
    BY <1>2, <1>4, <1>6
  <2>2. m \in Nat /\ k \in Nat /\ k # 0
    BY <1>1 DEF BatchBounds, FlushSend
  <2> HIDE DEF f, r, m, k
  <2>3. f \o << >> = f
    BY <1>1, ConcatEmptySeq
  <2>4. f \o buffer \o inChan = f \o r
    <3>1. f \in Seq(Events) /\ buffer \in Seq(Events) /\ inChan \in Seq(Events)
      BY <1>1
    <3>2. f \o buffer \o inChan = f \o (buffer \o inChan)
      BY ONLY <3>1, Regroup
    <3> QED
      BY <3>2 DEF r
  <2>5. Queued' = f \o r
    BY <2>1, <2>3, <2>4
  <2>6. q = (f \o out) \o r
    <3>1. PICK w \in Seq(Events) : w = f \o out
      BY <1>1
    <3>2. w \in Seq(Events) /\ buffer \in Seq(Events) /\ inChan \in Seq(Events)
      BY <1>1
    <3>3. w \o buffer \o inChan = w \o (buffer \o inChan)
      BY ONLY <3>2, Regroup
    <3> QED
      BY <1>4, <3>1, <3>3 DEF r
  <2>7. (f \o out) \o r = f \o (out \o r)
    <3>1. f \in Seq(Events) /\ out \in Seq(Events)
      BY <1>1
    <3> QED
      BY ONLY <3>1, <1>3, Regroup
  <2>8. Len(f \o out) = m + k
    BY <1>1, ConcatProperties DEF m, k
  <2>9. out \o r \in Seq(Events)
    BY <1>1, <1>3, ConcatProperties
  <2>10. SubSeq(q, 1, m) = f
    BY <1>1, <2>6, <2>7, <2>9, CutJoined DEF m
  <2>11. SubSeq(q, (m + k) + 1, Len(q)) = r
    BY <1>1, <1>3, <2>6, <2>8, CutJoined
  <2>12. DOMAIN q = 1..Len(q) /\ Len(q) \in Nat /\ m + k <= Len(q)
    <3>1. Len(q) = Len(f \o out) + Len(r) /\ Len(r) \in Nat
      BY <1>1, <1>3, <2>6, ConcatProperties
    <3> QED
      BY <1>1, <2>2, <2>8, <3>1
  <2> HIDE DEF q
  <2>13. /\ m + 1 \in DOMAIN q /\ m + k \in DOMAIN q /\ m + 1 <= m + k /\ (m + 1) - 1 = m
    BY <2>2, <2>12
  <2>14. \E i, j \in DOMAIN q :
           i <= j /\ Queued' = SubSeq(q, 1, i - 1) \o SubSeq(q, j + 1, Len(q))
    BY <2>5, <2>10, <2>11, <2>13
  <2> QED
    BY <2>1, <2>14 DEF Fifo!Lose, q
<1> QED
  BY <1>5, <1>6 DEF FlushSend

(* The exporter takes its batch from the front of the queue.               *)
LEMMA TakeHandsOver ==
  ASSUME TypeOK, BatchBounds, HandFull, Exp!Take, UNCHANGED batcherOnly
  PROVE  Fifo!HandOver
<1> DEFINE h == Head(batches)
           g == FlattenSeq(batches')
<1>1. /\ batches \in Seq(Seq(Events)) /\ batches # << >> /\ batches' = Tail(batches)
      /\ inflight' = h /\ inflight = << >> /\ UNCHANGED <<submitted, inChan, buffer, out>>
  BY DEF Exp!Take, batcherOnly, TypeOK, Events, HandFull
<1>2. h = batches[1] /\ 1 \in DOMAIN batches /\ h \in Seq(Events) /\ batches' \in Seq(Seq(Events))
  BY <1>1, HeadTailProperties
<1>3. Len(h) \in 1..BatchSize
  BY <1>2 DEF BatchBounds
<1>4. FlattenSeq(batches) = h \o g
  BY <1>1, FlattenTail
<1>5. g \in Seq(Events) /\ out \in Seq(Events) /\ buffer \in Seq(Events) /\ inChan \in Seq(Events)
  BY <1>2, FlattenType, QueuedParts
<1>6. Queued = (((h \o g) \o out) \o buffer) \o inChan
  BY <1>4 DEF Queued
<1>7. Queued' = ((g \o out) \o buffer) \o inChan
  BY <1>1 DEF Queued
<1> HIDE DEF h, g
<1>8. \A s, t \in Seq(Events) : s \o t \in Seq(Events)
  BY ConcatProperties
<1>9. Queued = h \o Queued' /\ Queued' \in Seq(Events)
  <2>1. h \in Seq(Events)
    BY <1>2
  <2>2. (h \o g) \o out = h \o (g \o out)
    <3>1. g \in Seq(Events) /\ out \in Seq(Events)
      BY <1>5
    <3> QED
      BY ONLY <2>1, <3>1, Regroup
  <2>3. (h \o (g \o out)) \o buffer = h \o ((g \o out) \o buffer)
    <3>1. g \o out \in Seq(Events) /\ buffer \in Seq(Events)
      BY <1>5, <1>8
    <3> QED
      BY ONLY <2>1, <3>1, Regroup
  <2>4. (h \o ((g \o out) \o buffer)) \o inChan = h \o (((g \o out) \o buffer) \o inChan)
    <3>1. PICK w \in Seq(Events) : w = (g \o out) \o buffer
      BY <1>5, <1>8
    <3>2. w \in Seq(Events) /\ inChan \in Seq(Events)
      BY <1>5
    <3>3. (h \o w) \o inChan = h \o (w \o inChan)
      BY ONLY <2>1, <3>2, Regroup
    <3> QED
      BY <3>1, <3>3
  <2>5. ((g \o out) \o buffer) \o inChan \in Seq(Events)
    BY <1>5, <1>8
  <2> QED
    BY <1>6, <1>7, <2>2, <2>3, <2>4, <2>5
<1>10. /\ SubSeq(Queued, 1, Len(h)) = h
       /\ SubSeq(Queued, Len(h) + 1, Len(Queued)) = Queued'
  BY <1>2, <1>9, CutJoined
<1>11. Len(h) <= Len(Queued)
  <2>1. Len(Queued) = Len(h) + Len(Queued') /\ Len(Queued') \in Nat
    BY <1>2, <1>9, ConcatProperties
  <2> QED
    BY <1>3, <2>1
<1> QED
  BY <1>1, <1>3, <1>10, <1>11 DEF Fifo!HandOver

(* Every step of the pipeline is one of the queue, or none.                *)
LEMMA FifoRefinedStep ==
  TypeOK /\ BatchBounds /\ HandFull /\ [PipelineNext]_pipelineVars => [Fifo!Next]_Fifo!vars
<1> SUFFICES ASSUME TypeOK, BatchBounds, HandFull, [PipelineNext]_pipelineVars
             PROVE  [Fifo!Next]_Fifo!vars
  OBVIOUS
<1>1. ASSUME UNCHANGED <<submitted, Queued, inflight>> PROVE [Fifo!Next]_Fifo!vars
  BY <1>1 DEF Fifo!vars
<1>2. ASSUME UNCHANGED <<batches, out, buffer, inChan>> PROVE UNCHANGED Queued
  BY <1>2 DEF Queued
<1>3. CASE SourceSubmits
  BY <1>3, SubmitOffers DEF SourceSubmits, exporterOnly, Fifo!Next
<1>4. CASE Receive /\ UNCHANGED exporterOnly
  BY <1>1, <1>4, ReceiveKeeps DEF Receive, exporterOnly
<1>5. CASE (TickerFires \/ Done \/ Cancel) /\ UNCHANGED exporterOnly
  BY <1>1, <1>2, <1>5 DEF TickerFires, Done, Cancel, exporterOnly
<1>6. ASSUME NEW from, NEW ret, FlushEmpty(from, ret), UNCHANGED exporterOnly
      PROVE  [Fifo!Next]_Fifo!vars
  BY <1>1, <1>2, <1>6 DEF FlushEmpty, exporterOnly
<1>7. ASSUME NEW from, NEW sent, FlushCopy(from, sent), from \notin {"send", "finalSend"},
             UNCHANGED exporterOnly
      PROVE  [Fifo!Next]_Fifo!vars
  BY <1>1, <1>7, CopyKeeps DEF FlushCopy, exporterOnly
<1>8. ASSUME NEW sent \in {"send", "finalSend"}, NEW ret, FlushSend(sent, ret),
             UNCHANGED exporterOnly
      PROVE  [Fifo!Next]_Fifo!vars
  <2>1. UNCHANGED <<submitted, inflight>>
    BY <1>8 DEF FlushSend, exporterOnly
  <2>2. UNCHANGED Queued \/ Fifo!Lose
    BY <1>8, <2>1, SendLoses
  <2> QED
    BY <1>1, <2>1, <2>2 DEF Fifo!Next
<1>9. CASE Exp!Take /\ UNCHANGED batcherOnly
  BY <1>9, TakeHandsOver DEF Fifo!Next
<1>10. CASE (Exp!Done \/ Exp!Post \/ Exp!Network) /\ UNCHANGED batcherOnly
  BY <1>1, <1>2, <1>10
  DEF Exp!Done, Exp!Post, Exp!Network, Exp!ServerIngests, Exp!RequestLost, batcherOnly
<1>11. CASE (Exp!ReplyOk \/ Exp!Fail) /\ UNCHANGED batcherOnly
  <2>1. /\ inflight # << >> /\ inflight' = << >>
        /\ UNCHANGED <<submitted, batches, out, buffer, inChan>>
    BY <1>11 DEF Exp!ReplyOk, Exp!Fail, batcherOnly, HandFull
  <2>2. Fifo!Release
    BY <1>2, <2>1 DEF Fifo!Release
  <2> QED
    BY <2>2 DEF Fifo!Next
<1>12. CASE UNCHANGED pipelineVars
  BY <1>1, <1>2, <1>12 DEF pipelineVars, batcherOnly, exporterOnly
<1> QED
  BY <1>3, <1>4, <1>5, <1>6, <1>7, <1>8, <1>9, <1>10, <1>11, <1>12
  DEF PipelineNext, SignalCancels, SourceSubmits, BatcherStep, ExporterStep, NetworkStep,
      Run, Flush, FinalFlush, Exp!Run

(* Batcher and exporter together are the lossy queue of LossyFifo, for any *)
(* batch size and capacities: what they keep is neither reordered nor      *)
(* duplicated, and it leaves in batches of bounded size.                   *)
THEOREM FifoRefined == PipelineSpec => ImplementsLossyFifo
<1>1. PipelineInit => Fifo!Init
  <2> SUFFICES ASSUME PipelineInit PROVE Fifo!Init
    OBVIOUS
  <2>1. /\ submitted = 0 /\ inflight = << >>
        /\ batches = << >> /\ out = << >> /\ buffer = << >> /\ inChan = << >>
    BY DEF PipelineInit, Init, Exp!ExporterInit
  <2>2. Queued = << >> \o << >> \o << >> \o << >>
    BY <2>1, FlattenEmpty DEF Queued
  <2>3. << >> \in Seq(Events) /\ << >> \o << >> = << >>
    OBVIOUS
  <2> QED
    BY <2>1, <2>2, <2>3 DEF Fifo!Init
<1>2. PathInv => HandFull
  BY DEF PathInv
<1> QED
  BY <1>1, <1>2, FifoRefinedStep, PathInvariant, BatcherCorrect, PTL
  DEF PipelineSpec, ImplementsLossyFifo, Fifo!Spec
=============================================================================
