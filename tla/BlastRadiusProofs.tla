-------------------------- MODULE BlastRadiusProofs --------------------------
(***************************************************************************)
(* The search of BlastRadius is right on every finite graph, with cycles   *)
(* or without, and with parallel edges.                                    *)
(*                                                                         *)
(* SearchInvariant says whom it has visited, and is inductive: UpstreamCor-*)
(* rect and NoneTwiceCorrect.  LevelInv says how deep: the queue is sorted *)
(* by depth, holds at most two of them, and everything as near as its head *)
(* has been visited.  PathsInv says which calls have been recorded.  With  *)
(* these and SeverityInv, AnswerCorrect.  What Within is for every number  *)
(* of calls is shown by induction, as a fact about the set of the numbers  *)
(* it holds for.                                                           *)
(***************************************************************************)
EXTENDS BlastRadius, DataLemmas, SequenceTheorems, FiniteSetTheorems, TLAPS

Entry == [id : Nodes \cup {root}, depth : Nat]
AffectedEntry == [nodeId : Nodes, depth : Nat]

(* The part of TypeOK that the search relies on.                           *)
TypeInv ==
  /\ edges \subseteq EdgeIds
  /\ visited \subseteq Nodes \cup {root}
  /\ queue \in Seq(Entry)
  /\ affected \in Seq(AffectedEntry)
  /\ current \in Entry
  /\ pending \subseteq edges
  /\ pc \in {"start", "shift", "edges", "done"}

-----------------------------------------------------------------------------
(* What the two queue operations do to the set of queued ids.              *)

IdsOf(q) == {q[i].id : i \in DOMAIN q}

(* push adds one id.                                                       *)
LEMMA AppendIds ==
  ASSUME NEW T, NEW q \in Seq(T), NEW x \in T
  PROVE  /\ Append(q, x) \in Seq(T)
         /\ IdsOf(Append(q, x)) = IdsOf(q) \cup {x.id}
<1> DEFINE a == Append(q, x)
           n == Len(q)
<1>1. /\ n \in Nat /\ DOMAIN q = 1..n
      /\ a \in Seq(T) /\ DOMAIN a = 1..(n + 1)
      /\ \A i \in 1..n : a[i] = q[i]
      /\ a[n + 1] = x
  OBVIOUS
<1> HIDE DEF a, n
<1>2. \A i \in DOMAIN q : i \in DOMAIN a /\ a[i] = q[i]
  BY <1>1
<1>3. n + 1 \in DOMAIN a /\ a[n + 1] = x
  BY <1>1
<1>4. \A i \in DOMAIN a : i \in DOMAIN q \/ i = n + 1
  BY <1>1
<1>5. IdsOf(a) = IdsOf(q) \cup {x.id}
  BY <1>2, <1>3, <1>4 DEF IdsOf
<1> QED
  BY <1>1, <1>5 DEF a

(* shift takes one occurrence of an id away, that of the head.             *)
LEMMA TailIds ==
  ASSUME NEW T, NEW q \in Seq(T), q # << >>
  PROVE  /\ Head(q) \in T
         /\ Tail(q) \in Seq(T)
         /\ IdsOf(q) = {Head(q).id} \cup IdsOf(Tail(q))
<1> DEFINE r == Tail(q)
           h == Head(q)
           n == Len(q)
<1>1. /\ n \in Nat \ {0} /\ DOMAIN q = 1..n
      /\ h \in T /\ h = q[1]
      /\ r \in Seq(T) /\ DOMAIN r = 1..(n - 1)
      /\ \A i \in 1..(n - 1) : r[i] = q[i + 1]
  BY HeadTailProperties
<1> HIDE DEF r, h, n
<1>2. 1 \in DOMAIN q /\ q[1] = h
  BY <1>1
<1>3. \A i \in DOMAIN r : i + 1 \in DOMAIN q /\ r[i] = q[i + 1]
  BY <1>1
<1>4. \A i \in DOMAIN q : i = 1 \/ (i - 1 \in DOMAIN r /\ r[i - 1] = q[i])
  BY <1>1
<1>5. IdsOf(q) = {h.id} \cup IdsOf(r)
  BY <1>2, <1>3, <1>4 DEF IdsOf
<1> QED
  BY <1>1, <1>5 DEF r, h

-----------------------------------------------------------------------------
(* Types.                                                                  *)

(* The types of a search that has not begun.                               *)
LEMMA TypeInvInit == Init => TypeInv
<1> SUFFICES ASSUME Init PROVE TypeInv
  OBVIOUS
<1>1. [id |-> root, depth |-> 0] \in Entry
  BY DEF Entry
<1>2. queue \in Seq(Entry)
  BY <1>1 DEF Init
<1>3. affected \in Seq(AffectedEntry)
  BY DEF Init
<1>4. current \in Entry
  BY <1>1 DEF Init
<1>5. edges \subseteq EdgeIds /\ pending \subseteq edges
  BY DEF Init
<1>6. visited \subseteq Nodes \cup {root} /\ pc \in {"start", "shift", "edges", "done"}
  BY DEF Init
<1> QED
  BY <1>2, <1>3, <1>4, <1>5, <1>6 DEF TypeInv

(* Every step of the search keeps the types; MarkCaller adds entries of    *)
(* the right one.                                                          *)
LEMMA TypeInvStep == TypeInv /\ [Next]_vars => TypeInv'
<1> SUFFICES ASSUME TypeInv, [Next]_vars PROVE TypeInv'
  OBVIOUS
<1>1. CASE UnknownRoot
  BY <1>1 DEF UnknownRoot, inputs, TypeInv, Entry, AffectedEntry
<1>2. CASE Start
  BY <1>2 DEF Start, inputs, TypeInv, Entry, AffectedEntry
<1>3. CASE Shift
  <2>1. Head(queue) \in Entry /\ Tail(queue) \in Seq(Entry)
    BY <1>3, TailIds DEF Shift, TypeInv
  <2>2. UNCHANGED <<edges, root, Entry, visited, affected>>
    BY <1>3 DEF Shift, inputs, Entry
  <2>3. pending' \subseteq edges
    BY <1>3 DEF Shift, IncomingEdges
  <2> QED
    BY <1>3, <2>1, <2>2, <2>3 DEF Shift, TypeInv, AffectedEntry
<1>4. CASE FollowEdge
  <2>1. PICK e \in pending : pending' = pending \ {e} /\ MarkCaller(e)
    BY <1>4 DEF FollowEdge
  <2>2. UNCHANGED <<edges, root, current, pc, Entry, AffectedEntry>>
    BY <1>4 DEF FollowEdge, inputs, Entry, AffectedEntry
  <2>3. e.source \in Nodes
    BY <2>1, BlastRadiusAssumption DEF TypeInv
  <2>4. CASE e.source \in visited
    BY <2>1, <2>2, <2>4 DEF MarkCaller, TypeInv
  <2>5. CASE e.source \notin visited
    <3> DEFINE d == current.depth + 1
    <3>1. d \in Nat
      BY DEF TypeInv, Entry
    <3>2. [id |-> e.source, depth |-> d] \in Entry
          /\ [nodeId |-> e.source, depth |-> d] \in AffectedEntry
      BY <2>3, <3>1 DEF Entry, AffectedEntry
    <3>3. /\ visited' = visited \cup {e.source}
          /\ affected' = Append(affected, [nodeId |-> e.source, depth |-> d])
          /\ queue' = Append(queue, [id |-> e.source, depth |-> d])
      BY <2>1, <2>5 DEF MarkCaller
    <3> HIDE DEF d
    <3>4. queue' \in Seq(Entry) /\ affected' \in Seq(AffectedEntry)
      BY <3>2, <3>3, AppendProperties DEF TypeInv
    <3> QED
      BY <2>1, <2>2, <2>3, <3>3, <3>4 DEF TypeInv
  <2> QED
    BY <2>4, <2>5
<1>5. CASE EdgesDone
  BY <1>5 DEF EdgesDone, inputs, TypeInv, Entry, AffectedEntry
<1>6. CASE Finish
  BY <1>6 DEF Finish, inputs, TypeInv, Entry, AffectedEntry
<1>7. CASE UNCHANGED vars
  BY <1>7 DEF vars, inputs, TypeInv, Entry, AffectedEntry
<1> QED
  BY <1>1, <1>2, <1>3, <1>4, <1>5, <1>6, <1>7 DEF Next

-----------------------------------------------------------------------------
(* SearchInvariant is inductive with the types.                            *)

(* The root is visited and queued before the search.                       *)
LEMMA SearchInit == Init => SearchInvariant
<1> SUFFICES ASSUME Init PROVE SearchInvariant
  OBVIOUS
<1>1. QueueIds = {root}
  BY DEF Init, QueueIds
<1>2. visited = {root} /\ pc = "start" /\ queue = <<[id |-> root, depth |-> 0]>>
  BY DEF Init
<1> QED
  BY <1>1, <1>2 DEF SearchInvariant

(* Shift moves the callers of the head from the queue to pending,          *)
(* FollowEdge visits them.                                                 *)
LEMMA SearchStep == TypeInv /\ SearchInvariant /\ [Next]_vars => SearchInvariant'
<1> SUFFICES ASSUME TypeInv, SearchInvariant, [Next]_vars PROVE SearchInvariant'
  OBVIOUS
<1>0. QueueIds = IdsOf(queue) /\ QueueIds' = IdsOf(queue')
  BY DEF QueueIds, IdsOf
<1>1. CASE UnknownRoot
  BY <1>1 DEF UnknownRoot, inputs, SearchInvariant, QueueIds, CallerClosed
<1>2. CASE Start
  BY <1>2 DEF Start, inputs, SearchInvariant, QueueIds, CallerClosed
<1>3. CASE Shift
  <2>1. QueueIds = {Head(queue).id} \cup QueueIds'
    <3>1. queue \in Seq(Entry) /\ queue # << >> /\ queue' = Tail(queue)
      BY <1>3 DEF Shift, TypeInv
    <3> QED
      BY <3>1, <1>0, TailIds
  <2>2. /\ UNCHANGED <<edges, root, visited>>
        /\ pc = "shift" /\ pc' = "edges"
        /\ current' = Head(queue)
        /\ pending' = {e \in edges : e.target = current'.id}
    BY <1>3 DEF Shift, inputs, IncomingEdges
  <2>3. root \in visited /\ root \in Nodes /\ QueueIds' \subseteq visited /\ current'.id \in visited
    BY <2>1, <2>2 DEF SearchInvariant
  <2>4. \A S \in SUBSET Nodes : root \in S /\ CallerClosed(S) => visited \subseteq S
    BY DEF SearchInvariant
  <2>5. \A e \in edges : e.target \in visited =>
          e.source \in visited \/ e.target \in QueueIds' \/ e \in pending'
    <3>1. \A e \in edges : e.target \in visited =>
            e.source \in visited \/ e.target \in QueueIds
      BY <2>2 DEF SearchInvariant
    <3>2. \A e \in edges : e.target = Head(queue).id => e \in pending'
      BY <2>2
    <3> QED
      BY <2>1, <3>1, <3>2
  <2> QED
    BY <2>2, <2>3, <2>4, <2>5 DEF SearchInvariant, CallerClosed
<1>4. CASE FollowEdge
  <2>1. PICK e \in pending : pending' = pending \ {e} /\ MarkCaller(e)
    BY <1>4 DEF FollowEdge
  <2>2. UNCHANGED <<edges, root, current, pc>> /\ pc = "edges"
    BY <1>4 DEF FollowEdge, inputs
  <2>3. e \in edges /\ e.target = current.id /\ current.id \in visited
    BY <2>1, <2>2 DEF SearchInvariant, TypeInv
  <2>4. visited' = visited \cup {e.source} /\ QueueIds' \subseteq visited' /\ QueueIds \subseteq QueueIds'
    <3>1. CASE e.source \in visited
      BY <2>1, <3>1 DEF MarkCaller, SearchInvariant, QueueIds
    <3>2. CASE e.source \notin visited
      <4> DEFINE x == [id |-> e.source, depth |-> current.depth + 1]
      <4>1. visited' = visited \cup {e.source} /\ queue' = Append(queue, x)
        BY <2>1, <3>2 DEF MarkCaller
      <4>2. x \in Entry
        BY <2>3, BlastRadiusAssumption DEF TypeInv, Entry
      <4>3. QueueIds' = QueueIds \cup {x.id}
        BY <1>0, <4>1, <4>2, AppendIds DEF TypeInv
      <4> QED
        BY <4>1, <4>3 DEF SearchInvariant
    <3> QED
      BY <3>1, <3>2
  <2>5. \A S \in SUBSET Nodes : root \in S /\ CallerClosed(S) => visited' \subseteq S
    BY <2>3, <2>4 DEF SearchInvariant, CallerClosed
  <2>6. \A f \in edges : f.target \in visited' =>
          f.source \in visited' \/ f.target \in QueueIds' \/ f \in pending'
    <3> SUFFICES ASSUME NEW f \in edges, f.target \in visited',
                        f.source \notin visited', f \notin pending'
                 PROVE  f.target \in QueueIds'
      OBVIOUS
    <3>1. CASE f.target \in visited
      BY <2>1, <2>2, <2>4, <3>1 DEF SearchInvariant
    <3>2. CASE f.target \notin visited
      <4>1. f.target = e.source /\ e.source \notin visited
        BY <2>4, <3>2
      <4>2. queue' = Append(queue, [id |-> e.source, depth |-> current.depth + 1])
        BY <2>1, <4>1 DEF MarkCaller
      <4>3. [id |-> e.source, depth |-> current.depth + 1] \in Entry
        BY <2>3, BlastRadiusAssumption DEF TypeInv, Entry
      <4>4. QueueIds' = QueueIds \cup {e.source}
        BY <1>0, <4>2, <4>3, AppendIds DEF TypeInv
      <4> QED
        BY <4>1, <4>4
    <3> QED
      BY <3>1, <3>2
  <2>7. root \in visited' /\ root \in Nodes /\ current.id \in visited'
        /\ \A f \in pending' : f.target = current.id
    BY <2>1, <2>2, <2>3, <2>4 DEF SearchInvariant
  <2> QED
    BY <2>2, <2>4, <2>5, <2>6, <2>7 DEF SearchInvariant, CallerClosed
<1>5. CASE EdgesDone
  BY <1>5 DEF EdgesDone, inputs, SearchInvariant, QueueIds, CallerClosed
<1>6. CASE Finish
  <2>1. QueueIds = {}
    BY <1>6 DEF Finish, QueueIds
  <2>2. CallerClosed(visited)
    BY <1>6, <2>1 DEF Finish, SearchInvariant, CallerClosed
  <2> QED
    BY <1>6, <2>1, <2>2 DEF Finish, inputs, SearchInvariant, QueueIds, CallerClosed
<1>7. CASE UNCHANGED vars
  BY <1>7 DEF vars, inputs, SearchInvariant, QueueIds, CallerClosed
<1> QED
  BY <1>1, <1>2, <1>3, <1>4, <1>5, <1>6, <1>7 DEF Next

(* Every turn of the search keeps the account of visited services.         *)
THEOREM SearchCorrect == Spec => []SearchInvariant
  BY TypeInvInit, TypeInvStep, SearchInit, SearchStep, PTL DEF Spec
-----------------------------------------------------------------------------
(* The two main results.                                                   *)

(* The list of affected services and the set of visited nodes agree, and   *)
(* the list has no duplicates.                                             *)
LEMMA NoneTwiceStep ==
  TypeInv /\ SearchInvariant /\ NoneTwice /\ [Next]_vars => NoneTwice'
<1> SUFFICES ASSUME TypeInv, SearchInvariant, NoneTwice, [Next]_vars
             PROVE  NoneTwice'
  OBVIOUS
<1>1. CASE FollowEdge
  <2>1. PICK e \in pending : MarkCaller(e)
    BY <1>1 DEF FollowEdge
  <2>2. UNCHANGED root /\ root \in visited
    BY <1>1 DEF FollowEdge, inputs, SearchInvariant
  <2>3. CASE e.source \in visited
    BY <2>1, <2>2, <2>3 DEF MarkCaller, NoneTwice, AffectedIds
  <2>4. CASE e.source \notin visited
    <3> DEFINE x == [nodeId |-> e.source, depth |-> current.depth + 1]
               n == Len(affected)
               a == affected'
    <3>1. visited' = visited \cup {e.source} /\ a = Append(affected, x)
      BY <2>1, <2>4 DEF MarkCaller
    <3>2. /\ n \in Nat /\ DOMAIN affected = 1..n
          /\ DOMAIN a = 1..(n + 1)
          /\ \A i \in 1..n : a[i] = affected[i]
          /\ a[n + 1] = x
      BY <3>1 DEF TypeInv
    <3>3. x.nodeId = e.source /\ e.source \notin AffectedIds /\ e.source # root
      BY <2>2, <2>4 DEF NoneTwice
    <3> HIDE DEF x, n, a
    <3>4. \A i \in DOMAIN a : (i \in DOMAIN affected /\ a[i] = affected[i])
                              \/ (i = n + 1 /\ a[i].nodeId = e.source)
      BY <3>2, <3>3
    <3>5. \A i \in DOMAIN affected : i \in DOMAIN a /\ a[i] = affected[i]
      BY <3>2
    <3>6. n + 1 \in DOMAIN a /\ a[n + 1].nodeId = e.source
      BY <3>2, <3>3
    <3>7. AffectedIds' = AffectedIds \cup {e.source}
      BY <3>4, <3>5, <3>6 DEF AffectedIds, a
    <3>8. \A i, j \in DOMAIN a : a[i].nodeId = a[j].nodeId => i = j
      BY <3>3, <3>4 DEF NoneTwice, AffectedIds
    <3> QED
      BY <2>2, <3>1, <3>3, <3>7, <3>8 DEF NoneTwice, a
  <2> QED
    BY <2>3, <2>4
<1>2. CASE UNCHANGED <<root, visited, affected>>
  BY <1>2 DEF NoneTwice, AffectedIds
<1> QED
  BY <1>1, <1>2
     DEF Next, UnknownRoot, Start, Shift, EdgesDone, Finish, vars, inputs

(* A service is counted once however many calls lead from it to the root,  *)
(* and the root is never counted.                                          *)
THEOREM NoneTwiceCorrect == Spec => []NoneTwice
<1>1. Init => NoneTwice
  BY DEF Init, NoneTwice, AffectedIds
<1> QED
  BY <1>1, TypeInvInit, TypeInvStep, SearchCorrect, NoneTwiceStep, PTL DEF Spec

(* The blast radius is the set of direct and transitive callers: a closed  *)
(* set that lies within every closed set around the root is the least one. *)
LEMMA ExactAtEnd == TypeInv /\ SearchInvariant /\ NoneTwice => UpstreamExact
<1> SUFFICES ASSUME TypeInv, SearchInvariant, NoneTwice, pc = "done"
             PROVE  AffectedIds = IF root \in Nodes THEN Upstream \ {root} ELSE {}
  BY DEF UpstreamExact
<1>1. CASE root \notin Nodes
  BY <1>1 DEF SearchInvariant, NoneTwice
<1>2. CASE root \in Nodes
  <2>1. visited \in SUBSET Nodes /\ root \in visited /\ CallerClosed(visited)
    BY <1>2 DEF TypeInv, SearchInvariant
  <2>2. Upstream \subseteq visited
    BY <2>1 DEF Upstream
  <2>3. visited \subseteq Upstream
    BY <2>1 DEF SearchInvariant, Upstream
  <2> QED
    BY <1>2, <2>2, <2>3 DEF NoneTwice
<1> QED
  BY <1>1, <1>2

(* When the search ends, what it lists is exactly the upstream of the      *)
(* root: no caller, direct or transitive, is left out, and nothing else    *)
(* is there.                                                               *)
THEOREM UpstreamCorrect == Spec => []UpstreamExact
  BY SearchCorrect, NoneTwiceCorrect, TypeInvInit, TypeInvStep, ExactAtEnd, PTL
     DEF Spec

-----------------------------------------------------------------------------

(* f takes n steps from the start a.                                       *)
Iterates(f, n, a, step) == f[0] = a /\ \A i \in 0..(n - 1) : f[i + 1] = step[f[i]]

(* As far as two of them both go, they agree.                              *)
LEMMA IterationUnique ==
  ASSUME NEW a, NEW step, NEW f, NEW g, NEW m \in Nat, NEW n \in Nat,
         Iterates(f, m, a, step), Iterates(g, n, a, step)
  PROVE  \A i \in 0..m : i <= n => f[i] = g[i]
<1> DEFINE P == {i \in Nat : i <= m /\ i <= n => f[i] = g[i]}
<1>1. 0 \in P
  BY DEF Iterates
<1>2. ASSUME NEW i \in Nat, i \in P PROVE i + 1 \in P
  <2>1. CASE i + 1 <= m /\ i + 1 <= n
    <3>1. i \in 0..(m - 1) /\ i \in 0..(n - 1) /\ i <= m /\ i <= n
      BY <2>1
    <3>2. f[i] = g[i]
      BY <1>2, <3>1
    <3>3. f[i + 1] = step[f[i]] /\ g[i + 1] = step[g[i]]
      BY <3>1 DEF Iterates
    <3> QED
      BY <3>2, <3>3
  <2>2. CASE ~(i + 1 <= m /\ i + 1 <= n)
    BY <2>2
  <2> QED
    BY <2>1, <2>2
<1> HIDE DEF P
<1>3. Nat \subseteq P
  BY <1>1, <1>2, Induction
<1> QED
  BY <1>3 DEF P

(* A start and a step determine a function of all the numbers.             *)
LEMMA Iteration ==
  ASSUME NEW S, NEW a \in S, NEW step \in [S -> S]
  PROVE  \E f \in [Nat -> S] : f[0] = a /\ \A n \in Nat : f[n + 1] = step[f[n]]
<1> DEFINE P == {n \in Nat : \E g \in [0..n -> S] : Iterates(g, n, a, step)}
<1>1. 0 \in P
  <2> DEFINE g == [i \in 0..0 |-> a]
  <2>1. g \in [0..0 -> S] /\ Iterates(g, 0, a, step)
    BY DEF Iterates
  <2> QED
    BY <2>1
<1>2. ASSUME NEW n \in Nat, n \in P PROVE n + 1 \in P
  <2>1. PICK g \in [0..n -> S] : Iterates(g, n, a, step)
    BY <1>2
  <2> DEFINE h == [i \in 0..(n + 1) |-> IF i <= n THEN g[i] ELSE step[g[n]]]
  <2>2. n \in 0..n /\ g[n] \in S /\ step[g[n]] \in S
    OBVIOUS
  <2>3. h \in [0..(n + 1) -> S]
    BY <2>2
  <2>4. h[0] = a
    BY <2>1 DEF Iterates
  <2>5. ASSUME NEW i \in 0..n PROVE h[i + 1] = step[h[i]]
    <3>1. CASE i = n
      BY <3>1
    <3>2. CASE i # n
      <4>1. i \in 0..(n - 1) /\ i + 1 <= n /\ i + 1 \in 0..(n + 1) /\ i \in 0..(n + 1) /\ i <= n
        BY <3>2
      <4>2. h[i + 1] = g[i + 1] /\ h[i] = g[i]
        BY <4>1
      <4> QED
        BY <2>1, <4>1, <4>2 DEF Iterates
    <3> QED
      BY <3>1, <3>2
  <2>6. Iterates(h, n + 1, a, step)
    <3> HIDE DEF h
    <3>1. (n + 1) - 1 = n
      OBVIOUS
    <3> QED
      BY <2>4, <2>5, <3>1 DEF Iterates
  <2> HIDE DEF h
  <2> QED
    BY <2>3, <2>6
<1>3. Nat \subseteq P
  <2> HIDE DEF P
  <2> QED
    BY <1>1, <1>2, Induction
<1> DEFINE part(n) == CHOOSE g \in [0..n -> S] : Iterates(g, n, a, step)
<1>4. \A n \in Nat : part(n) \in [0..n -> S] /\ Iterates(part(n), n, a, step)
  BY <1>3
<1> HIDE DEF part
<1> DEFINE f == [n \in Nat |-> part(n)[n]]
<1>5. f \in [Nat -> S]
  BY <1>4
<1>6. f[0] = a
  BY <1>4 DEF Iterates
<1>7. ASSUME NEW n \in Nat PROVE f[n + 1] = step[f[n]]
  <2>1. n + 1 \in Nat /\ n \in 0..n /\ n \in 0..((n + 1) - 1) /\ n <= n + 1
    OBVIOUS
  <2>2. part(n + 1)[n + 1] = step[part(n + 1)[n]]
    BY <1>4, <2>1 DEF Iterates
  <2>3. part(n)[n] = part(n + 1)[n]
    BY <1>4, <2>1, IterationUnique
  <2> QED
    BY <2>1, <2>2, <2>3
<1> HIDE DEF f
<1> QED
  BY <1>5, <1>6, <1>7

-----------------------------------------------------------------------------
(* The sets that Within counts the calls by.                               *)
Everyone == Nodes \cup {root}
Callers(S) == S \cup {e.source : e \in {f \in edges : f.target \in S}}

(* No calls reach the root alone, one call more reaches the callers too.   *)
LEMMA WithinSteps ==
  ASSUME edges \subseteq EdgeIds
  PROVE  /\ Within[0] = {root}
         /\ \A k \in Nat : Within[k] \subseteq Everyone /\ Within[k + 1] = Callers(Within[k])
<1> DEFINE step == [S \in SUBSET Everyone |-> Callers(S)]
<1>1. \A e \in edges : e.source \in Everyone
  BY BlastRadiusAssumption DEF BlastRadiusAssumption, Everyone
<1>2. step \in [SUBSET Everyone -> SUBSET Everyone]
  BY <1>1 DEF Callers
<1>3. {root} \in SUBSET Everyone
  BY DEF Everyone
<1> HIDE DEF step
<1>4. PICK f \in [Nat -> SUBSET Everyone] : f[0] = {root} /\ \A n \in Nat : f[n + 1] = step[f[n]]
  <2> DEFINE T == SUBSET Everyone
             a == {root}
  <2>1. a \in T /\ step \in [T -> T]
    BY <1>2, <1>3
  <2> HIDE DEF T, a
  <2>2. \E f \in [Nat -> T] : f[0] = a /\ \A n \in Nat : f[n + 1] = step[f[n]]
    BY <2>1, Iteration
  <2> QED
    BY <2>2 DEF T, a
<1>5. \A n \in Nat : f[n + 1] = Callers(f[n])
  BY <1>4 DEF step
<1> DEFINE Eq(W) == W = [k \in Nat |->
              IF k = 0 THEN {root}
              ELSE W[k - 1] \cup {e.source : e \in {d \in edges : d.target \in W[k - 1]}}]
<1>6. Eq(f)
  <2>1. ASSUME NEW k \in Nat
        PROVE  f[k] = IF k = 0 THEN {root}
                 ELSE f[k - 1] \cup {e.source : e \in {d \in edges : d.target \in f[k - 1]}}
    <3>1. CASE k = 0
      BY <1>4, <3>1
    <3>2. CASE k # 0
      <4>1. k - 1 \in Nat /\ (k - 1) + 1 = k
        BY <3>2
      <4>2. f[(k - 1) + 1] = Callers(f[k - 1])
        BY <1>5, <4>1
      <4> QED
        BY <3>2, <4>1, <4>2 DEF Callers
    <3> QED
      BY <3>1, <3>2
  <2> QED
    BY <2>1
<1>7. Within = CHOOSE W : Eq(W)
  BY DEF Within
<1>8. Eq(Within)
  <2> HIDE DEF Eq
  <2> QED
    BY <1>6, <1>7
<1>9. \A k \in Nat : Within[k] = IF k = 0 THEN {root} ELSE Callers(Within[k - 1])
  BY <1>8 DEF Callers
<1>10. Within[0] = {root}
  BY <1>9
<1>11. \A k \in Nat : Within[k + 1] = Callers(Within[k])
  BY <1>9
<1>12. \A k \in Nat : Within[k] \subseteq Everyone
  <2> DEFINE P == {k \in Nat : Within[k] \subseteq Everyone}
  <2>1. 0 \in P
    BY <1>10 DEF Everyone
  <2>2. \A k \in Nat : k \in P => k + 1 \in P
    BY <1>1, <1>11 DEF Callers
  <2> HIDE DEF P
  <2>3. Nat \subseteq P
    BY <2>1, <2>2, Induction
  <2> QED
    BY <2>3 DEF P
<1> QED
  BY <1>10, <1>11, <1>12

(* More calls reach more.                                                  *)
LEMMA WithinGrows ==
  ASSUME edges \subseteq EdgeIds, NEW i \in Nat, NEW j \in Nat, i <= j
  PROVE  Within[i] \subseteq Within[j]
<1> DEFINE P == {d \in Nat : Within[i] \subseteq Within[i + d]}
<1>1. 0 \in P
  OBVIOUS
<1>2. ASSUME NEW d \in Nat, d \in P PROVE d + 1 \in P
  <2>1. i + d \in Nat /\ i + (d + 1) = (i + d) + 1
    OBVIOUS
  <2>2. Within[(i + d) + 1] = Callers(Within[i + d])
    BY <2>1, WithinSteps
  <2>3. Within[i + d] \subseteq Within[(i + d) + 1]
    BY <2>2 DEF Callers
  <2> QED
    BY <1>2, <2>1, <2>3
<1> HIDE DEF P
<1>3. Nat \subseteq P
  BY <1>1, <1>2, Induction
<1>4. j - i \in Nat /\ i + (j - i) = j
  OBVIOUS
<1>5. j - i \in P
  BY <1>3, <1>4
<1>6. Within[i] \subseteq Within[i + (j - i)]
  BY <1>5 DEF P
<1> QED
  BY <1>4, <1>6

(* The shortest chain of calls from n to the root has d calls.             *)
AtDistance(n, d) == n \in Within[d] /\ (d > 0 => n \notin Within[d - 1])

(* A service found from one at distance d, whose circle is all visited, is *)
(* at distance d + 1.                                                      *)
LEMMA CallerDistance ==
  ASSUME edges \subseteq EdgeIds, NEW d \in Nat, NEW e \in edges,
         e.target \in Within[d], e.source \notin Within[d]
  PROVE  AtDistance(e.source, d + 1)
<1>1. e.source \in Within[d + 1]
  BY WithinSteps DEF Callers
<1>2. (d + 1) - 1 = d
  OBVIOUS
<1> QED
  BY <1>1, <1>2 DEF AtDistance

(* Distances do not change during a search: the graph does not.            *)
LEMMA WithinKept == UNCHANGED <<edges, root>> => Within' = Within
  BY DEF Within

(* Nor do the distances of single services.                                *)
LEMMA DistanceKept ==
  UNCHANGED <<edges, root>> => \A n, d : AtDistance(n, d)' <=> AtDistance(n, d)
  BY WithinKept DEF AtDistance

(* The queue holds services of at most two distances, the nearer ones      *)
(* first; all that is as near as the first of them has been visited.       *)
QueueSorted ==
  \A i, j \in DOMAIN queue : i <= j =>
    queue[i].depth <= queue[j].depth /\ queue[j].depth <= queue[i].depth + 1
QueueRight == \A i \in DOMAIN queue : AtDistance(queue[i].id, queue[i].depth)
CurrentRight ==
  pc = "edges" =>
    /\ AtDistance(current.id, current.depth)
    /\ Within[current.depth] \subseteq visited
    /\ \A i \in DOMAIN queue :
         current.depth <= queue[i].depth /\ queue[i].depth <= current.depth + 1
HeadRight ==
  pc \in {"start", "shift"} /\ queue # << >> => Within[queue[1].depth] \subseteq visited
AffectedRight ==
  \A i \in DOMAIN affected :
    affected[i].depth > 0 /\ AtDistance(affected[i].nodeId, affected[i].depth)
PathsRight == \A p \in paths : p.depth > 0 /\ AtDistance(p.edge.target, p.depth - 1)

LevelInv == QueueSorted /\ QueueRight /\ CurrentRight /\ HeadRight /\ AffectedRight /\ PathsRight

(* Depths are numbers.                                                     *)
LEMMA QueueDepths == TypeInv => \A i \in DOMAIN queue : queue[i].depth \in Nat
<1>1. TypeInv => \A i \in DOMAIN queue : queue[i] \in Entry
  BY DEF TypeInv
<1> QED
  BY <1>1 DEF Entry

(* A search starts at distance 0.                                          *)
LEMMA LevelInit == Init => LevelInv
<1> SUFFICES ASSUME Init PROVE LevelInv
  OBVIOUS
<1>1. edges \subseteq EdgeIds
  BY DEF Init
<1>2. Within[0] = {root}
  BY <1>1, WithinSteps
<1>3. /\ DOMAIN queue = {1} /\ queue[1].id = root /\ queue[1].depth = 0
      /\ visited = {root} /\ pc = "start" /\ DOMAIN affected = {} /\ paths = {}
  BY DEF Init
<1>4. QueueSorted
  BY <1>3 DEF QueueSorted
<1>5. QueueRight
  BY <1>2, <1>3 DEF QueueRight, AtDistance
<1>6. CurrentRight /\ HeadRight
  BY <1>2, <1>3 DEF CurrentRight, HeadRight
<1>7. AffectedRight /\ PathsRight
  BY <1>3 DEF AffectedRight, PathsRight
<1> QED
  BY <1>4, <1>5, <1>6, <1>7 DEF LevelInv

(* The head of the queue becomes the current node.                         *)
LEMMA LevelShift == TypeInv /\ LevelInv /\ Shift => LevelInv'
<1> SUFFICES ASSUME TypeInv, LevelInv, Shift PROVE LevelInv'
  OBVIOUS
<1>1. /\ UNCHANGED <<edges, root, visited, affected, paths>>
      /\ pc = "shift" /\ pc' = "edges" /\ queue # << >>
      /\ current' = Head(queue) /\ queue' = Tail(queue)
  BY DEF Shift, inputs
<1>2. Within' = Within /\ \A n, d : AtDistance(n, d)' <=> AtDistance(n, d)
  BY <1>1, WithinKept, DistanceKept
<1>3. /\ 1 \in DOMAIN queue /\ current' = queue[1]
      /\ \A i \in DOMAIN queue' : i + 1 \in DOMAIN queue /\ queue'[i] = queue[i + 1]
      /\ DOMAIN queue' \subseteq Nat \ {0}
  <2>1. queue \in Seq(Entry)
    BY DEF TypeInv
  <2>2. Len(queue) \in Nat /\ Len(queue) # 0 /\ DOMAIN queue = 1..Len(queue)
    BY <1>1, <2>1
  <2>3. /\ DOMAIN Tail(queue) = 1..(Len(queue) - 1)
        /\ \A i \in 1..(Len(queue) - 1) : Tail(queue)[i] = queue[i + 1]
    BY <1>1, <2>1, HeadTailProperties
  <2>4. Head(queue) = queue[1]
    BY <1>1, <2>1
  <2> QED
    BY <1>1, <2>2, <2>3, <2>4
<1>4. QueueSorted'
  <2> SUFFICES ASSUME NEW i \in DOMAIN queue', NEW j \in DOMAIN queue', i <= j
               PROVE  /\ queue'[i].depth <= queue'[j].depth
                      /\ queue'[j].depth <= queue'[i].depth + 1
    BY DEF QueueSorted
  <2>1. i + 1 <= j + 1
    BY <1>3
  <2> QED
    BY <1>3, <2>1 DEF LevelInv, QueueSorted
<1>5. QueueRight'
  <2>1. \A i \in DOMAIN queue' : AtDistance(queue'[i].id, queue'[i].depth)
    BY <1>3 DEF LevelInv, QueueRight
  <2> QED
    BY <1>2, <2>1 DEF QueueRight
<1>6. CurrentRight'
  <2>1. AtDistance(current'.id, current'.depth)
    BY <1>3 DEF LevelInv, QueueRight
  <2>2. Within'[current'.depth] \subseteq visited'
    BY <1>1, <1>2, <1>3 DEF LevelInv, HeadRight
  <2>3. ASSUME NEW i \in DOMAIN queue'
        PROVE  current'.depth <= queue'[i].depth /\ queue'[i].depth <= current'.depth + 1
    <3>1. 1 <= i + 1
      BY <1>3
    <3> QED
      BY <1>3, <3>1 DEF LevelInv, QueueSorted
  <2> QED
    BY <1>2, <2>1, <2>2, <2>3 DEF CurrentRight
<1>7. HeadRight'
  BY <1>1 DEF HeadRight
<1>8. AffectedRight' /\ PathsRight'
  BY <1>1, <1>2 DEF LevelInv, AffectedRight, PathsRight
<1> QED
  BY <1>4, <1>5, <1>6, <1>7, <1>8 DEF LevelInv

(* A caller that is found is one call farther than the current node.       *)
LEMMA LevelFollow == TypeInv /\ SearchInvariant /\ LevelInv /\ FollowEdge => LevelInv'
<1> SUFFICES ASSUME TypeInv, SearchInvariant, LevelInv, FollowEdge PROVE LevelInv'
  OBVIOUS
<1> DEFINE c == current.depth
<1>1. PICK e \in pending :
        /\ paths' = paths \cup {[edge |-> e, depth |-> c + 1]}
        /\ MarkCaller(e)
  BY DEF FollowEdge
<1>2. UNCHANGED <<edges, root, current, pc>> /\ pc = "edges"
  BY DEF FollowEdge, inputs
<1>3. Within' = Within /\ \A n, d : AtDistance(n, d)' <=> AtDistance(n, d)
  BY <1>2, WithinKept, DistanceKept
<1>4. e \in edges /\ e.target = current.id
  BY <1>1, <1>2 DEF SearchInvariant, TypeInv
<1>5. c \in Nat /\ edges \subseteq EdgeIds
  BY DEF TypeInv, Entry
<1>6. /\ AtDistance(e.target, c) /\ Within[c] \subseteq visited
      /\ \A i \in DOMAIN queue : c <= queue[i].depth /\ queue[i].depth <= c + 1
  BY <1>2, <1>4 DEF LevelInv, CurrentRight
<1>7. PathsRight'
  <2>1. (c + 1) - 1 = c /\ c + 1 > 0
    BY <1>5
  <2>2. ASSUME NEW p \in paths' PROVE p.depth > 0 /\ AtDistance(p.edge.target, p.depth - 1)
    <3>1. CASE p \in paths
      BY <3>1 DEF LevelInv, PathsRight
    <3>2. CASE p = [edge |-> e, depth |-> c + 1]
      BY <1>6, <2>1, <3>2
    <3> QED
      BY <1>1, <3>1, <3>2
  <2> QED
    BY <1>3, <2>2 DEF PathsRight
<1>8. HeadRight'
  BY <1>2 DEF HeadRight
<1>9. CASE e.source \in visited
  <2>1. UNCHANGED <<visited, affected, queue>>
    BY <1>1, <1>9 DEF MarkCaller
  <2>2. QueueSorted' /\ QueueRight' /\ AffectedRight'
    BY <1>3, <2>1 DEF LevelInv, QueueSorted, QueueRight, AffectedRight
  <2>3. CurrentRight'
    BY <1>2, <1>3, <2>1 DEF LevelInv, CurrentRight
  <2> QED
    BY <1>7, <1>8, <2>2, <2>3 DEF LevelInv
<1>10. CASE e.source \notin visited
  <2> DEFINE x == [id |-> e.source, depth |-> c + 1]
             y == [nodeId |-> e.source, depth |-> c + 1]
             n == Len(queue)
             m == Len(affected)
  <2>1. /\ visited' = visited \cup {e.source}
        /\ affected' = Append(affected, y)
        /\ queue' = Append(queue, x)
    BY <1>1, <1>10 DEF MarkCaller
  <2>2. AtDistance(e.source, c + 1)
    BY <1>4, <1>5, <1>6, <1>10, CallerDistance DEF AtDistance
  <2>3. /\ DOMAIN queue = 1..n /\ n \in Nat /\ DOMAIN queue' = 1..(n + 1)
        /\ \A i \in 1..n : queue'[i] = queue[i]
        /\ queue'[n + 1] = x
    BY <2>1 DEF TypeInv
  <2>4. /\ DOMAIN affected = 1..m /\ m \in Nat /\ DOMAIN affected' = 1..(m + 1)
        /\ \A i \in 1..m : affected'[i] = affected[i]
        /\ affected'[m + 1] = y
    BY <2>1 DEF TypeInv
  <2>5. x.id = e.source /\ x.depth = c + 1 /\ y.nodeId = e.source /\ y.depth = c + 1
    OBVIOUS
  <2>6. \A i \in DOMAIN queue : queue[i].depth \in Nat
    BY QueueDepths
  <2> HIDE DEF x, y, n, m, c
  <2>7. \A i \in DOMAIN queue' : \/ i \in DOMAIN queue /\ queue'[i] = queue[i]
                                 \/ i = n + 1 /\ queue'[i] = x
    BY <2>3
  <2>8. \A i \in DOMAIN affected' : \/ i \in DOMAIN affected /\ affected'[i] = affected[i]
                                    \/ i = m + 1 /\ affected'[i] = y
    BY <2>4
  <2>9. \A i \in DOMAIN queue' : c <= queue'[i].depth /\ queue'[i].depth <= c + 1
    BY <1>5, <1>6, <2>5, <2>7
  <2>10. QueueSorted'
    <3> SUFFICES ASSUME NEW i \in DOMAIN queue', NEW j \in DOMAIN queue', i <= j
                 PROVE  /\ queue'[i].depth <= queue'[j].depth
                        /\ queue'[j].depth <= queue'[i].depth + 1
      BY DEF QueueSorted
    <3>1. CASE i \in DOMAIN queue /\ j \in DOMAIN queue
      BY <2>3, <3>1 DEF LevelInv, QueueSorted
    <3>2. CASE j = n + 1 /\ i \in DOMAIN queue
      <4>1. queue'[i] = queue[i] /\ queue'[j] = x /\ queue[i].depth \in Nat
        BY <2>3, <2>6, <3>2
      <4>2. c <= queue[i].depth /\ queue[i].depth <= c + 1
        BY <1>6, <3>2
      <4> QED
        BY <1>5, <2>5, <4>1, <4>2
    <3>3. CASE i = n + 1
      <4>1. j = n + 1
        BY <2>3, <3>3
      <4> QED
        BY <1>5, <2>3, <2>5, <3>3, <4>1
    <3> QED
      BY <2>7, <3>1, <3>2, <3>3
  <2>11. QueueRight'
    <3>1. \A i \in DOMAIN queue' : AtDistance(queue'[i].id, queue'[i].depth)
      BY <2>2, <2>5, <2>7 DEF LevelInv, QueueRight
    <3> QED
      BY <1>3, <3>1 DEF QueueRight
  <2>12. AffectedRight'
    <3>0. c + 1 > 0
      BY <1>5
    <3>1. ASSUME NEW i \in DOMAIN affected'
          PROVE  affected'[i].depth > 0 /\ AtDistance(affected'[i].nodeId, affected'[i].depth)
      <4>1. CASE i \in DOMAIN affected /\ affected'[i] = affected[i]
        BY <4>1 DEF LevelInv, AffectedRight
      <4>2. CASE affected'[i] = y
        BY <2>2, <2>5, <3>0, <4>2
      <4> QED
        BY <2>8, <4>1, <4>2
    <3> QED
      BY <1>3, <3>1 DEF AffectedRight
  <2>13. CurrentRight'
    <3>1. AtDistance(current.id, c) /\ Within[c] \subseteq visited'
      BY <1>4, <1>6, <2>1
    <3> QED
      BY <1>2, <1>3, <2>9, <3>1 DEF CurrentRight, c
  <2> QED
    BY <1>7, <1>8, <2>10, <2>11, <2>12, <2>13 DEF LevelInv
<1> QED
  BY <1>9, <1>10

(* When the inner loop has ended and the next in the queue is farther, the *)
(* nearer ones have all left it, and their callers have been visited.      *)
LEMMA LevelDone == TypeInv /\ SearchInvariant /\ LevelInv /\ EdgesDone => LevelInv'
<1> SUFFICES ASSUME TypeInv, SearchInvariant, LevelInv, EdgesDone PROVE LevelInv'
  OBVIOUS
<1> DEFINE c == current.depth
           h == queue[1].depth
<1>1. /\ UNCHANGED <<edges, root, visited, queue, affected, paths, current>>
      /\ pc = "edges" /\ pc' = "shift" /\ pending = {}
  BY DEF EdgesDone, inputs
<1>2. Within' = Within /\ \A n, d : AtDistance(n, d)' <=> AtDistance(n, d)
  BY <1>1, WithinKept, DistanceKept
<1>3. QueueSorted' /\ QueueRight' /\ AffectedRight' /\ PathsRight'
  BY <1>1, <1>2 DEF LevelInv, QueueSorted, QueueRight, AffectedRight, PathsRight
<1>4. CurrentRight'
  BY <1>1 DEF CurrentRight
<1>5. ASSUME queue # << >> PROVE Within[h] \subseteq visited
  <2>1. c \in Nat /\ edges \subseteq EdgeIds
    BY DEF TypeInv, Entry
  <2>2. /\ 1 \in DOMAIN queue
        /\ \A i \in DOMAIN queue : i \in Nat /\ 1 <= i /\ queue[i].depth \in Nat
    <3>1. queue \in Seq(Entry)
      BY DEF TypeInv
    <3>2. Len(queue) \in Nat /\ Len(queue) # 0 /\ DOMAIN queue = 1..Len(queue)
      BY <1>5, <3>1
    <3> QED
      BY <3>2, QueueDepths
  <2>3. /\ Within[c] \subseteq visited
        /\ \A i \in DOMAIN queue : c <= queue[i].depth /\ queue[i].depth <= c + 1
    BY <1>1 DEF LevelInv, CurrentRight
  <2> HIDE DEF c
  <2>4. CASE h = c
    BY <2>3, <2>4
  <2>5. CASE h # c
    <3>1. h = c + 1
      BY <2>1, <2>2, <2>3, <2>5
    <3>2. ASSUME NEW i \in DOMAIN queue PROVE queue[i].id \notin Within[c]
      <4>1. queue[i].depth = c + 1
        <5>1. h <= queue[i].depth
          BY <2>2 DEF LevelInv, QueueSorted
        <5> QED
          BY <2>1, <2>2, <2>3, <3>1, <5>1
      <4>2. AtDistance(queue[i].id, c + 1)
        BY <4>1 DEF LevelInv, QueueRight
      <4>3. c + 1 > 0 /\ (c + 1) - 1 = c
        BY <2>1
      <4> QED
        BY <4>2, <4>3 DEF AtDistance
    <3>3. \A e \in edges : e.target \in Within[c] => e.source \in visited
      <4>1. \A e \in edges : e.target \in visited => e.source \in visited \/ e.target \in QueueIds
        BY <1>1 DEF SearchInvariant
      <4>2. \A n \in QueueIds : n \notin Within[c]
        BY <3>2 DEF QueueIds
      <4> QED
        BY <2>3, <4>1, <4>2
    <3>4. Within[c + 1] \subseteq visited
      <4>1. Within[c + 1] = Callers(Within[c])
        BY <2>1, WithinSteps
      <4> QED
        BY <2>3, <3>3, <4>1 DEF Callers
    <3> QED
      BY <3>1, <3>4
  <2> QED
    BY <2>4, <2>5
<1>6. HeadRight'
  BY <1>1, <1>2, <1>5 DEF HeadRight
<1> QED
  BY <1>3, <1>4, <1>6 DEF LevelInv

(* LevelInv is inductive with the types and SearchInvariant.               *)
LEMMA LevelStep == TypeInv /\ SearchInvariant /\ LevelInv /\ [Next]_vars => LevelInv'
<1> SUFFICES ASSUME TypeInv, SearchInvariant, LevelInv, [Next]_vars PROVE LevelInv'
  OBVIOUS
<1>1. CASE Start \/ UnknownRoot \/ Finish \/ UNCHANGED vars
  <2>1. UNCHANGED <<edges, root, visited, queue, affected, paths, current>>
    BY <1>1 DEF Start, UnknownRoot, Finish, vars, inputs
  <2>2. (pc' = pc) \/ (pc = "start" /\ pc' = "shift") \/ pc' = "done"
    BY <1>1 DEF Start, UnknownRoot, Finish, vars
  <2>3. Within' = Within /\ \A n, d : AtDistance(n, d)' <=> AtDistance(n, d)
    BY <2>1, WithinKept, DistanceKept
  <2>4. QueueSorted' /\ QueueRight' /\ AffectedRight' /\ PathsRight'
    BY <2>1, <2>3 DEF LevelInv, QueueSorted, QueueRight, AffectedRight, PathsRight
  <2>5. CurrentRight' /\ HeadRight'
    BY <2>1, <2>2, <2>3 DEF LevelInv, CurrentRight, HeadRight
  <2> QED
    BY <2>4, <2>5 DEF LevelInv
<1> QED
  BY <1>1, LevelShift, LevelFollow, LevelDone DEF Next

-----------------------------------------------------------------------------
(* Every call into a visited service becomes a dependency path, when its   *)
(* target has left the queue and the inner loop has taken it.              *)
Recorded(e) == \E p \in paths : p.edge = e

PathsInv ==
  /\ paths \subseteq [edge : edges, depth : Nat]
  /\ \A p \in paths : p.edge.target \in visited
  /\ pc \in {"start", "shift", "edges"} =>
       \A e \in edges : e.target \in visited =>
         \/ Recorded(e)
         \/ e.target \in QueueIds
         \/ pc = "edges" /\ e \in pending
  /\ pc = "done" /\ root \in Nodes => \A e \in edges : e.target \in visited => Recorded(e)

(* Before the search, the calls into the root are yet to come.             *)
LEMMA PathsInit == Init => PathsInv
<1> SUFFICES ASSUME Init PROVE PathsInv
  OBVIOUS
<1>1. QueueIds = {root} /\ visited = {root} /\ paths = {} /\ pc = "start"
  BY DEF Init, QueueIds
<1> QED
  BY <1>1 DEF PathsInv

(* A call is recorded whether or not its caller is new.                    *)
LEMMA PathsStep == TypeInv /\ SearchInvariant /\ PathsInv /\ [Next]_vars => PathsInv'
<1> SUFFICES ASSUME TypeInv, SearchInvariant, PathsInv, [Next]_vars PROVE PathsInv'
  OBVIOUS
<1>0. QueueIds = IdsOf(queue) /\ QueueIds' = IdsOf(queue')
  BY DEF QueueIds, IdsOf
<1>1. CASE UnknownRoot \/ Start \/ UNCHANGED vars
  <2>1. UNCHANGED <<edges, root, visited, queue, paths, pending>>
    BY <1>1 DEF UnknownRoot, Start, vars, inputs
  <2>2. \/ pc' = pc
        \/ pc = "start" /\ pc' = "shift"
        \/ pc' = "done" /\ root \notin Nodes
    BY <1>1 DEF UnknownRoot, Start, vars
  <2> QED
    BY <2>1, <2>2 DEF PathsInv, Recorded, QueueIds
<1>2. CASE Shift
  <2>1. QueueIds = {Head(queue).id} \cup QueueIds'
    <3>1. queue \in Seq(Entry) /\ queue # << >> /\ queue' = Tail(queue)
      BY <1>2 DEF Shift, TypeInv
    <3> QED
      BY <3>1, <1>0, TailIds
  <2>2. /\ UNCHANGED <<edges, root, visited, paths>>
        /\ pc = "shift" /\ pc' = "edges"
        /\ pending' = {e \in edges : e.target = Head(queue).id}
    BY <1>2 DEF Shift, inputs, IncomingEdges
  <2>3. \A e \in edges : e.target \in visited =>
          Recorded(e) \/ e.target \in QueueIds' \/ e \in pending'
    <3>1. \A e \in edges : e.target \in visited => Recorded(e) \/ e.target \in QueueIds
      BY <2>2 DEF PathsInv
    <3> QED
      BY <2>1, <2>2, <3>1
  <2> QED
    BY <2>2, <2>3 DEF PathsInv, Recorded
<1>3. CASE FollowEdge
  <2> DEFINE d == current.depth + 1
  <2>1. PICK e \in pending :
          /\ paths' = paths \cup {[edge |-> e, depth |-> d]}
          /\ pending' = pending \ {e}
          /\ MarkCaller(e)
    BY <1>3 DEF FollowEdge
  <2>2. UNCHANGED <<edges, root, current, pc>> /\ pc = "edges"
    BY <1>3 DEF FollowEdge, inputs
  <2>3. e \in edges /\ e.target = current.id /\ current.id \in visited /\ d \in Nat
    BY <2>1, <2>2 DEF SearchInvariant, TypeInv, Entry
  <2> DEFINE p == [edge |-> e, depth |-> d]
  <2>4. p \in [edge : edges, depth : Nat] /\ p.edge = e
    BY <2>3
  <2>5. visited' = visited \cup {e.source} /\ QueueIds \subseteq QueueIds'
        /\ (e.source \notin visited => e.source \in QueueIds')
    <3>1. CASE e.source \in visited
      BY <2>1, <3>1 DEF MarkCaller, QueueIds
    <3>2. CASE e.source \notin visited
      <4> DEFINE x == [id |-> e.source, depth |-> current.depth + 1]
      <4>1. visited' = visited \cup {e.source} /\ queue' = Append(queue, x)
        BY <2>1, <3>2 DEF MarkCaller
      <4>2. x \in Entry
        BY <2>3, BlastRadiusAssumption DEF BlastRadiusAssumption, TypeInv, Entry
      <4>3. QueueIds' = QueueIds \cup {x.id}
        BY <1>0, <4>1, <4>2, AppendIds DEF TypeInv
      <4> QED
        BY <4>1, <4>3
    <3> QED
      BY <3>1, <3>2
  <2> HIDE DEF p, d
  <2>6. paths' = paths \cup {p}
    BY <2>1 DEF p
  <2>7. /\ paths' \subseteq [edge : edges', depth : Nat]
        /\ \A q \in paths' : q.edge.target \in visited'
    BY <2>2, <2>3, <2>4, <2>5, <2>6 DEF PathsInv
  <2>8. \A f \in edges : Recorded(f) \/ f = e => Recorded(f)'
    BY <2>4, <2>6 DEF Recorded
  <2>9. ASSUME NEW f \in edges, f.target \in visited'
        PROVE  Recorded(f)' \/ f.target \in QueueIds' \/ f \in pending'
    <3>1. CASE f.target \in visited
      BY <2>1, <2>2, <2>5, <2>8, <3>1 DEF PathsInv
    <3>2. CASE f.target \notin visited
      BY <2>5, <2>9, <3>2
    <3> QED
      BY <3>1, <3>2
  <2> QED
    BY <2>2, <2>7, <2>9 DEF PathsInv
<1>4. CASE EdgesDone
  BY <1>4 DEF EdgesDone, inputs, PathsInv, Recorded, QueueIds
<1>5. CASE Finish
  <2>1. QueueIds = {}
    BY <1>5 DEF Finish, QueueIds
  <2> QED
    BY <1>5, <2>1 DEF Finish, inputs, PathsInv, Recorded
<1> QED
  BY <1>1, <1>2, <1>3, <1>4, <1>5 DEF Next

-----------------------------------------------------------------------------
(* The severity is that of the affected services as they are at the end.   *)
SeverityInv ==
  /\ severity \in Severities
  /\ pc = "done" /\ root \in Nodes => severity = ImpactSeverity

(* Its cases leave none out and do not overlap where it matters, because a *)
(* share of nothing is not above any limit.                                *)
LEMMA SeverityCases ==
  ASSUME TypeInv
  PROVE  /\ ImpactSeverity \in Severities
         /\ ImpactSeverity = "CRITICAL" <=> HasIngress \/ ImpactAbove(2)
         /\ ImpactSeverity = "HIGH" <=>
              ImpactSeverity # "CRITICAL" /\ (ImpactAbove(1) \/ Len(affected) >= 2)
         /\ ImpactSeverity = "LOW" <=> affected = << >>
<1>1. /\ Len(affected) \in Nat /\ DOMAIN affected = 1..Len(affected)
      /\ Len(affected) = 0 <=> affected = << >>
  BY DEF TypeInv
<1>2. Cardinality(Nodes) \in Nat
  BY BlastRadiusAssumption, FS_CardinalityType DEF BlastRadiusAssumption
<1>3. Len(affected) = 0 => ~ImpactAbove(1) /\ ~ImpactAbove(2) /\ ~HasIngress
  BY <1>1, <1>2 DEF ImpactAbove, HasIngress
<1>4. ImpactAbove(2) => ImpactAbove(1)
  BY <1>1, <1>2 DEF ImpactAbove
<1> DEFINE I == HasIngress
           A2 == ImpactAbove(2)
           A1 == ImpactAbove(1)
           n == Len(affected)
<1>5. ImpactSeverity =
        CASE I \/ A2 -> "CRITICAL"
          [] ~(I \/ A2) /\ (A1 \/ n >= 2) -> "HIGH"
          [] ~(I \/ A1) /\ n = 1 -> "MEDIUM"
          [] n = 0 -> "LOW"
  BY DEF ImpactSeverity
<1>6. n \in Nat /\ (n = 0 => ~A1 /\ ~A2 /\ ~I) /\ (A2 => A1)
  BY <1>1, <1>3, <1>4
<1> HIDE DEF I, A2, A1, n
<1> DEFINE sev == ImpactSeverity
           Right == /\ sev \in Severities
                    /\ sev = "CRITICAL" <=> I \/ A2
                    /\ sev = "HIGH" <=> sev # "CRITICAL" /\ (A1 \/ n >= 2)
                    /\ sev = "LOW" <=> n = 0
<1> HIDE DEF sev
<1>7. ASSUME n = 0 PROVE Right
  <2>1. sev = "LOW"
    BY <1>5, <1>6, <1>7 DEF sev
  <2> QED
    BY <1>6, <1>7, <2>1 DEF Severities
<1>8. ASSUME n # 0 /\ (I \/ A2) PROVE Right
  <2>1. sev = "CRITICAL"
    BY <1>5, <1>6, <1>8 DEF sev
  <2> QED
    BY <1>8, <2>1 DEF Severities
<1>9. ASSUME n # 0 /\ ~(I \/ A2) /\ (A1 \/ n >= 2) PROVE Right
  <2>1. sev = "HIGH"
    BY <1>5, <1>6, <1>9 DEF sev
  <2> QED
    BY <1>9, <2>1 DEF Severities
<1>10. ASSUME n # 0 /\ ~(I \/ A2) /\ ~(A1 \/ n >= 2) PROVE Right
  <2>1. n = 1
    BY <1>6, <1>10
  <2>2. sev = "MEDIUM"
    BY <1>5, <1>6, <1>10, <2>1 DEF sev
  <2> QED
    BY <1>10, <2>2 DEF Severities
<1>11. Right
  BY <1>7, <1>8, <1>9, <1>10
<1> QED
  BY <1>1, <1>11 DEF sev, I, A1, A2, n

(* The severity is written once, when the list is complete.                *)
LEMMA SeverityStep == TypeInv /\ SeverityInv /\ [Next]_vars => SeverityInv'
<1> SUFFICES ASSUME TypeInv, SeverityInv, [Next]_vars PROVE SeverityInv'
  OBVIOUS
<1>1. CASE Finish
  <2>1. severity' = ImpactSeverity /\ ImpactSeverity' = ImpactSeverity
    BY <1>1 DEF Finish, inputs, ImpactSeverity, HasIngress, ImpactAbove
  <2> QED
    BY <2>1, SeverityCases DEF SeverityInv
<1>2. CASE UnknownRoot
  BY <1>2 DEF UnknownRoot, inputs, SeverityInv
<1>3. CASE Start \/ Shift \/ FollowEdge \/ EdgesDone
  BY <1>3 DEF Start, Shift, FollowEdge, EdgesDone, SeverityInv
<1>4. CASE UNCHANGED vars
  BY <1>4 DEF vars, SeverityInv, ImpactSeverity, HasIngress, ImpactAbove
<1> QED
  BY <1>1, <1>2, <1>3, <1>4 DEF Next

-----------------------------------------------------------------------------
(* What the inputs are, never touched by the search.                       *)
RootGiven == root \in Roots

(* The root is not touched.                                                *)
LEMMA RootKept == RootGiven /\ [Next]_vars => RootGiven'
  BY DEF RootGiven, Next, UnknownRoot, Start, Shift, FollowEdge, EdgesDone, Finish, vars, inputs

(* All the parts together.                                                 *)
LEMMA SearchInvariants ==
  Spec => [](TypeInv /\ SearchInvariant /\ LevelInv /\ PathsInv /\ SeverityInv /\ NoneTwice)
<1>1. Init => SeverityInv
  BY DEF Init, SeverityInv, Severities
<1> QED
  BY <1>1, TypeInvInit, TypeInvStep, SearchCorrect, NoneTwiceCorrect, LevelInit, LevelStep,
     PathsInit, PathsStep, SeverityStep, PTL DEF Spec

(* The search is well typed at every turn of its loops.                    *)
THEOREM TypeCorrect == Spec => []TypeOK
<1>1. Init => RootGiven
  BY DEF Init, RootGiven
<1>2. TypeInv /\ PathsInv /\ SeverityInv /\ RootGiven => TypeOK
  BY DEF RootGiven, TypeInv, PathsInv, SeverityInv, TypeOK, Entry, AffectedEntry
<1>3. Spec => []RootGiven
  BY <1>1, RootKept, PTL DEF Spec
<1> QED
  BY <1>2, <1>3, SearchInvariants, PTL

(* A list that names none twice is as long as there are services in it.    *)
LEMMA AffectedCounted ==
  ASSUME TypeInv, NoneTwice
  PROVE  Cardinality(AffectedIds) = Len(affected)
<1> DEFINE n == Len(affected)
           f == [i \in 1..n |-> affected[i].nodeId]
<1>1. n \in Nat /\ DOMAIN affected = 1..n
  BY DEF TypeInv
<1>2. \A i, j \in 1..n : affected[i].nodeId = affected[j].nodeId => i = j
  BY <1>1 DEF NoneTwice
<1>3. AffectedIds = {affected[i].nodeId : i \in 1..n}
  BY <1>1 DEF AffectedIds
<1> HIDE DEF n
<1>4. f \in Surjection(1..n, AffectedIds)
  BY <1>3 DEF Surjection
<1>5. f \in Injection(1..n, AffectedIds)
  BY <1>2, <1>3 DEF Injection, IsInjective
<1>6. IsFiniteSet(1..n) /\ Cardinality(1..n) = n
  BY <1>1, FS_Interval
<1> HIDE DEF f
<1>7. Cardinality(AffectedIds) = Cardinality(1..n)
  BY <1>4, <1>5, <1>6, FS_Surjection
<1> QED
  BY <1>6, <1>7 DEF n

(* What computeBlastRadius answers at the end: each caller with its least  *)
(* distance to the root, each call into what is affected at a depth one    *)
(* more than its target's, and the severity that the number of callers and *)
(* the entry points among them call for.                                   *)
THEOREM AnswerCorrect == Spec => []AnswerExact
<1>1. TypeInv /\ LevelInv => DepthShortest
  <2> SUFFICES ASSUME LevelInv, NEW i \in DOMAIN affected
               PROVE  /\ affected[i].nodeId \in Within[affected[i].depth]
                      /\ affected[i].nodeId \notin Within[affected[i].depth - 1]
    BY DEF DepthShortest
  <2> QED
    BY DEF LevelInv, AffectedRight, AtDistance
<1>2. ASSUME TypeInv, SearchInvariant, NoneTwice, pc = "done", root \in Nodes
      PROVE  visited = Upstream
  <2>1. AffectedIds = Upstream \ {root} /\ AffectedIds = visited \ {root}
    BY <1>2, ExactAtEnd DEF UpstreamExact, NoneTwice
  <2>2. root \in visited /\ root \in Upstream
    BY <1>2 DEF SearchInvariant, Upstream
  <2> QED
    BY <2>1, <2>2
<1>3. TypeInv /\ SearchInvariant /\ NoneTwice /\ LevelInv /\ PathsInv => PathsExact
  <2> SUFFICES ASSUME TypeInv, SearchInvariant, NoneTwice, LevelInv, PathsInv PROVE PathsExact
    OBVIOUS
  <2>1. ASSUME pc = "done", root \in Nodes
        PROVE  {p.edge : p \in paths} = {e \in edges : e.target \in Upstream}
    <3>1. visited = Upstream
      BY <1>2, <2>1
    <3>2. \A p \in paths : p.edge \in edges /\ p.edge.target \in visited
      BY DEF PathsInv
    <3>3. \A e \in edges : e.target \in visited => \E p \in paths : p.edge = e
      BY <2>1 DEF PathsInv, Recorded
    <3> QED
      BY <3>1, <3>2, <3>3
  <2>2. ASSUME NEW p \in paths
        PROVE  p.edge.target \in Within[p.depth - 1]
               /\ (p.depth > 1 => p.edge.target \notin Within[p.depth - 2])
    <3>1. p.depth \in Nat
      BY DEF PathsInv
    <3>2. p.depth > 0 /\ AtDistance(p.edge.target, p.depth - 1)
      BY DEF LevelInv, PathsRight
    <3>3. p.depth > 1 => p.depth - 1 > 0 /\ (p.depth - 1) - 1 = p.depth - 2
      BY <3>1
    <3> QED
      BY <3>2, <3>3 DEF AtDistance
  <2> QED
    BY <2>1, <2>2 DEF PathsExact
<1>4. TypeInv /\ SearchInvariant /\ NoneTwice /\ SeverityInv => SeverityRight
  <2> SUFFICES ASSUME TypeInv, SearchInvariant, NoneTwice, SeverityInv, pc = "done", root \in Nodes
               PROVE  SeverityRight
    BY DEF SeverityRight
  <2>1. severity = ImpactSeverity
    BY DEF SeverityInv
  <2>2. AffectedIds = Upstream \ {root}
    BY ExactAtEnd DEF UpstreamExact
  <2>3. (Upstream \ {root}) \cap Ingress # {} <=> HasIngress
    BY <2>2 DEF AffectedIds, HasIngress
  <2>4. affected = << >> <=> Upstream \ {root} = {}
    <3>1. affected \in Seq(AffectedEntry)
      BY DEF TypeInv
    <3>2. affected = << >> <=> DOMAIN affected = {}
      BY <3>1
    <3> QED
      BY <2>2, <3>2 DEF AffectedIds
  <2>5. Cardinality(Upstream \ {root}) = Len(affected)
    BY <2>2, AffectedCounted
  <2>6. /\ ImpactAbove(2) <=> 5 * Cardinality(Upstream \ {root}) > 2 * Cardinality(Nodes)
        /\ ImpactAbove(1) <=> 5 * Cardinality(Upstream \ {root}) > Cardinality(Nodes)
    <3>1. Cardinality(Nodes) \in Nat
      BY BlastRadiusAssumption, FS_CardinalityType DEF BlastRadiusAssumption
    <3> QED
      BY <2>5, <3>1 DEF ImpactAbove
  <2>7. /\ severity = "CRITICAL" <=> HasIngress \/ ImpactAbove(2)
        /\ severity = "HIGH" <=> severity # "CRITICAL" /\ (ImpactAbove(1) \/ Len(affected) >= 2)
        /\ severity = "LOW" <=> affected = << >>
    BY <2>1, SeverityCases
  <2> QED
    BY <2>3, <2>4, <2>5, <2>6, <2>7 DEF SeverityRight
<1>5. DepthShortest /\ PathsExact /\ SeverityRight => AnswerExact
  BY DEF AnswerExact
<1> QED
  BY <1>1, <1>3, <1>4, <1>5, SearchInvariants, PTL
=============================================================================
