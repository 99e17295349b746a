--------------------------- MODULE PodCacheProofs ---------------------------
(***************************************************************************)
(* Theorems about PodCache, for any objects and keys, any queue of the     *)
(* informer and any number of broken watches and resyncs: its types, and   *)
(* that an entry outlives what it stands for only in the ways known.       *)
(***************************************************************************)
EXTENDS PodCache, FiniteSetTheorems, SequenceTheorems, TLAPS

Calls == [handler : {"update", "delete", "tombstone"}, object : Objects, keys : KeySets]

(* Objects and their keys, in the cluster or in the informer's copy.       *)
Copy(f) == DOMAIN f \subseteq Objects /\ f \in [DOMAIN f -> KeySets]

(* TypeOK, and that the queue is a sequence and the copies are functions.  *)
CacheTypes == TypeOK /\ pending \in Seq(Calls) /\ Copy(api) /\ Copy(store)

(* What the types say, and what makes them hold after a step.              *)
LEMMA TypesSplit ==
  ASSUME CacheTypes
  PROVE  /\ Copy(api) /\ Copy(store)
         /\ changes \in 0..MaxChanges /\ done \subseteq DOMAIN api /\ watching \in BOOLEAN
         /\ pending \in Seq(Calls) /\ Len(pending) <= MaxPending
         /\ DOMAIN index \subseteq Keys /\ Range(index) \subseteq Objects
         /\ orphans \subseteq Keys \X Objects
BY DEF CacheTypes, TypeOK

(* What has to be shown of a step for CacheTypes to hold after it, part    *)
(* by part.                                                                *)
LEMMA TypesNext ==
  ASSUME Copy(api'), Copy(store'),
         changes' \in 0..MaxChanges, done' \subseteq DOMAIN api', watching' \in BOOLEAN,
         pending' \in Seq(Calls), Len(pending') <= MaxPending,
         DOMAIN index' \subseteq Keys, Range(index') \subseteq Objects,
         orphans' \subseteq Keys \X Objects
  PROVE  CacheTypes'
<1>1. \A f : Copy(f) => DOMAIN f \subseteq Objects /\ Range(f) \subseteq KeySets
  BY DEF Copy, Range
<1>2. Range(pending') \subseteq Calls
  BY DEF Range
<1> QED
  BY <1>1, <1>2 DEF CacheTypes, TypeOK, Calls

(* Calls of handlers.                                                      *)
LEMMA CallsOf ==
  ASSUME NEW o \in Objects, NEW keys \in KeySets
  PROVE  Update(o, keys) \in Calls /\ Delete(o, keys) \in Calls /\ Tombstone(o, keys) \in Calls
BY DEF Update, Delete, Tombstone, Calls

(* A set of calls, one for each object of a set, in any order.             *)
LEMMA OrderedCalls ==
  ASSUME NEW S, S \subseteq Objects, NEW C, NEW g \in Surjection(S, C),
         NEW s, s \in SetToSeqs(C)
  PROVE  s \in Seq(C) /\ Len(s) <= Cardinality(Objects)
<1>1. IsFiniteSet(Objects)
  BY PodCacheAssumption DEF PodCacheAssumption
<1>2. /\ IsFiniteSet(S) /\ Cardinality(S) <= Cardinality(Objects)
      /\ Cardinality(S) \in Nat /\ Cardinality(Objects) \in Nat
  BY <1>1, FS_Subset, FS_CardinalityType
<1>4. Cardinality(C) \in Nat /\ Cardinality(C) <= Cardinality(S)
  BY <1>2, FS_Surjection, FS_CardinalityType
<1>5. s \in [1..Cardinality(C) -> C]
  BY DEF SetToSeqs
<1>6. s \in Seq(C) /\ Len(s) = Cardinality(C)
  BY <1>4, <1>5
<1>7. Len(s) <= Cardinality(Objects)
  BY <1>2, <1>4, <1>6
<1> QED
  BY <1>6, <1>7

-----------------------------------------------------------------------------
(* Entries.  What an entry or a call at place i of the queue stands for is *)
(* still there, or a delete later in the queue will tell of it, or none    *)
(* ever will.                                                              *)
Current(k, o) == o \in DOMAIN store /\ k \in store[o]
Deletes(c, k, o) == c.handler = "delete" /\ c.object = o /\ k \in c.keys
Accounted(k, o, i) ==
  \/ Current(k, o)
  \/ \E j \in DOMAIN pending : j > i /\ Deletes(pending[j], k, o)
  \/ <<k, o>> \in orphans

(* While the watch works the copy is exact.  Updates in the queue are      *)
(* accounted for as entries are: they will be entries.                     *)
EntryInv ==
  /\ watching => store = api
  /\ \A i \in DOMAIN pending : pending[i].handler = "update" =>
       \A k \in pending[i].keys : Accounted(k, pending[i].object, i)
  /\ \A k \in DOMAIN index : Accounted(k, index[k], 0)

(* A step of the cluster or the informer puts calls behind the queue: for  *)
(* what is no longer current there is a delete among them, or no delete    *)
(* ever, and their updates are current.                                    *)
Grown(new) ==
  /\ new \in Seq(Calls) /\ pending' = pending \o new
  /\ index' = index /\ orphans \subseteq orphans'
  /\ \A k, o : Current(k, o) =>
       \/ Current(k, o)'
       \/ <<k, o>> \in orphans'
       \/ \E j \in DOMAIN new : Deletes(new[j], k, o)
  /\ \A i \in DOMAIN new : new[i].handler = "update" =>
       \A k \in new[i].keys : new[i].object \in DOMAIN store' /\ k \in store'[new[i].object]
  /\ watching' => store' = api'

(* The places of the calls in the queue that has grown.                    *)
LEMMA GrownQueue ==
  ASSUME CacheTypes, NEW new, Grown(new)
  PROVE  /\ pending' \in Seq(Calls) /\ Len(pending) \in Nat /\ Len(new) \in Nat
         /\ DOMAIN pending = 1..Len(pending) /\ DOMAIN new = 1..Len(new)
         /\ DOMAIN pending' = 1..(Len(pending) + Len(new))
         /\ Len(pending') = Len(pending) + Len(new)
         /\ \A i \in DOMAIN pending : i \in DOMAIN pending' /\ pending'[i] = pending[i]
         /\ \A j \in DOMAIN new : Len(pending) + j \in DOMAIN pending'
                                 /\ pending'[Len(pending) + j] = new[j]
         /\ \A i \in DOMAIN pending' : i \in DOMAIN pending \/
               \E j \in DOMAIN new : i = Len(pending) + j
<1>1. pending \in Seq(Calls) /\ new \in Seq(Calls) /\ pending' = pending \o new
  BY DEF CacheTypes, Grown
<1> DEFINE m == Len(pending)
           n == Len(new)
           q == pending \o new
<1>2. /\ m \in Nat /\ n \in Nat /\ DOMAIN pending = 1..m /\ DOMAIN new = 1..n
  BY <1>1
<1>3. /\ q \in Seq(Calls) /\ Len(q) = m + n
      /\ \A i \in 1..(m + n) : q[i] = IF i <= m THEN pending[i] ELSE new[i - m]
  BY <1>1, ConcatProperties
<1>4. DOMAIN q = 1..(m + n)
  BY <1>3
<1> HIDE DEF m, n, q
<1>5. \A i \in 1..m : i \in 1..(m + n) /\ q[i] = pending[i]
  BY <1>2, <1>3
<1>6. \A j \in 1..n : m + j \in 1..(m + n) /\ q[m + j] = new[j]
  <2> TAKE j \in 1..n
  <2>1. m + j \in 1..(m + n) /\ ~(m + j <= m) /\ (m + j) - m = j
    BY <1>2
  <2> QED
    BY <1>3, <2>1
<1>7. \A i \in 1..(m + n) : i \in 1..m \/ \E j \in 1..n : i = m + j
  <2> TAKE i \in 1..(m + n)
  <2>1. i \in 1..m \/ (i - m \in 1..n /\ i = m + (i - m))
    BY <1>2
  <2> QED
    BY <2>1
<1>8. pending' = q
  BY <1>1 DEF q
<1> QED
  BY <1>2, <1>3, <1>4, <1>5, <1>6, <1>7, <1>8 DEF m, n

(* Every entry and update is accounted for in the queue that has grown.    *)
LEMMA GrownKeeps ==
  ASSUME CacheTypes, EntryInv, NEW new, Grown(new)
  PROVE  EntryInv'
<1>0. /\ Len(pending) \in Nat /\ DOMAIN pending = 1..Len(pending) /\ DOMAIN new = 1..Len(new)
      /\ Len(new) \in Nat
      /\ \A i \in DOMAIN pending : i \in DOMAIN pending' /\ pending'[i] = pending[i]
      /\ \A j \in DOMAIN new : Len(pending) + j \in DOMAIN pending'
                              /\ pending'[Len(pending) + j] = new[j]
      /\ \A i \in DOMAIN pending' : i \in DOMAIN pending \/
            \E j \in DOMAIN new : i = Len(pending) + j
  BY GrownQueue
<1>1. ASSUME NEW k, NEW o, NEW i \in 0..Len(pending), Accounted(k, o, i)
      PROVE  Accounted(k, o, i)'
  <2>1. CASE Current(k, o)
    <3>1. CASE \E j \in DOMAIN new : Deletes(new[j], k, o)
      <4>1. PICK j \in DOMAIN new : Deletes(new[j], k, o)
        BY <3>1
      <4>2. Len(pending) + j \in DOMAIN pending' /\ pending'[Len(pending) + j] = new[j]
        BY <1>0
      <4>3. Len(pending) + j > i
        BY <1>0
      <4> QED
        BY <4>1, <4>2, <4>3 DEF Accounted, Deletes
    <3> QED
      BY <2>1, <3>1 DEF Grown, Accounted
  <2>2. CASE \E j \in DOMAIN pending : j > i /\ Deletes(pending[j], k, o)
    BY <1>0, <2>2 DEF Accounted, Deletes
  <2>3. CASE <<k, o>> \in orphans
    BY <2>3 DEF Grown, Accounted
  <2> QED
    BY <1>1, <2>1, <2>2, <2>3 DEF Accounted
<1>2. ASSUME NEW i \in DOMAIN pending', pending'[i].handler = "update", NEW k \in pending'[i].keys
      PROVE  Accounted(k, pending[i].object, i)'
  <2>1. CASE i \in DOMAIN pending
    <3>1. pending'[i] = pending[i] /\ i \in 0..Len(pending)
      BY <1>0, <2>1
    <3>2. Accounted(k, pending[i].object, i)
      BY <1>2, <2>1, <3>1 DEF EntryInv
    <3>3. \A o : Accounted(k, o, i) => Accounted(k, o, i)'
      BY <1>1, <3>1
    <3> QED
      BY <3>1, <3>2, <3>3 DEF Accounted, Current, Deletes
  <2>2. CASE \E j \in DOMAIN new : i = Len(pending) + j
    <3>1. PICK j \in DOMAIN new : i = Len(pending) + j
      BY <2>2
    <3>2. pending'[i] = new[j]
      BY <1>0, <3>1
    <3> QED
      BY <1>2, <3>2 DEF Grown, Accounted, Current
  <2> QED
    BY <1>0, <2>1, <2>2
<1>3. ASSUME NEW k \in DOMAIN index'
      PROVE  Accounted(k, index[k], 0)'
  <2>1. index' = index /\ Accounted(k, index[k], 0)
    BY DEF Grown, EntryInv
  <2>2. \A o : Accounted(k, o, 0) => Accounted(k, o, 0)'
    BY <1>0, <1>1
  <2> QED
    BY <2>1, <2>2 DEF Accounted, Current
<1>4. watching' => store' = api'
  BY DEF Grown
<1> QED
  BY <1>2, <1>3, <1>4 DEF EntryInv

(* What a new version of an object puts in the queue and in the copy.      *)
LEMMA ChangedGrows ==
  ASSUME CacheTypes, EntryInv, NEW o \in Objects, NEW keys \in KeySets, Changed(o, keys),
         api' = With(api, o, keys), UNCHANGED <<watching, index>>
  PROVE  /\ \E new : Grown(new)
         /\ Copy(store') /\ orphans' \subseteq Keys \X Objects /\ Len(pending') <= MaxPending
<1>1. /\ Copy(store) /\ pending \in Seq(Calls) /\ Len(pending) <= MaxPending
      /\ orphans \subseteq Keys \X Objects /\ MaxPending \in Nat /\ watching \in BOOLEAN
  BY TypesSplit, PodCacheAssumption DEF PodCacheAssumption
<1>2. CASE watching
  <2> DEFINE c == Update(o, keys)
  <2>1. /\ Len(pending) < MaxPending /\ pending' = Append(pending, c)
        /\ store' = With(store, o, keys) /\ orphans' = orphans \cup Dropped(o, keys)
    BY <1>2 DEF Changed
  <2>2. c \in Calls /\ c.handler = "update" /\ c.object = o /\ c.keys = keys
    BY CallsOf DEF Update
  <2>3. /\ <<c>> \in Seq(Calls) /\ DOMAIN <<c>> = {1} /\ <<c>>[1] = c
    <3> HIDE DEF c
    <3> QED
      BY <2>2
  <2>4. pending' = pending \o <<c>> /\ Len(pending') <= MaxPending
    <3> HIDE DEF c
    <3>1. Len(Append(pending, c)) = Len(pending) + 1 /\ Len(pending) \in Nat
      BY <1>1, <2>2
    <3> QED
      BY <1>1, <2>1, <2>2, <3>1, AppendIsConcat
  <2> HIDE DEF c
  <2>5. /\ DOMAIN store' = DOMAIN store \cup {o} /\ store'[o] = keys /\ Copy(store')
        /\ \A p \in DOMAIN store \ {o} : store'[p] = store[p]
    BY <1>1, <2>1 DEF Copy, With
  <2>6. ASSUME NEW k, NEW p, Current(k, p)
        PROVE  Current(k, p)' \/ <<k, p>> \in orphans'
    <3>1. CASE p # o
      BY <2>5, <2>6, <3>1 DEF Current
    <3>2. CASE p = o /\ k \in keys
      BY <2>5, <3>2 DEF Current
    <3>3. CASE p = o /\ k \notin keys
      BY <2>1, <2>6, <3>3 DEF Current, Dropped
    <3> QED
      BY <3>1, <3>2, <3>3
  <2>7. store' = api' /\ orphans \subseteq orphans'
    BY <1>2, <2>1 DEF EntryInv
  <2>8. Grown(<<c>>)
    BY <2>2, <2>3, <2>4, <2>5, <2>6, <2>7 DEF Grown
  <2>9. Dropped(o, keys) \subseteq Keys \X Objects
    <3>1. o \in DOMAIN store => store[o] \subseteq Keys
      BY <1>1 DEF Copy, Keys
    <3> QED
      BY <3>1 DEF Dropped
  <2> QED
    BY <1>1, <2>1, <2>4, <2>5, <2>8, <2>9
<1>3. CASE ~watching
  <2>1. UNCHANGED <<pending, store, orphans>> /\ ~watching'
    BY <1>3 DEF Changed
  <2>2. << >> \in Seq(Calls) /\ pending' = pending \o << >> /\ DOMAIN << >> = {}
    BY <1>1, <2>1, ConcatEmptySeq
  <2>3. Grown(<< >>)
    BY <2>1, <2>2 DEF Grown, Current
  <2> QED
    BY <1>1, <2>1, <2>3
<1> QED
  BY <1>2, <1>3

(* The steps of the cluster and of the informer are of this kind.          *)
LEMMA AssignGrows ==
  ASSUME CacheTypes, EntryInv, Assign
  PROVE  (\E new : Grown(new)) /\ CacheTypes'
<1>1. PICK o \in Objects \ done, keys \in KeySets :
        api' = With(api, o, keys) /\ Changed(o, keys)
  BY DEF Assign
<1>2. UNCHANGED <<done, watching, index>> /\ changes' = changes + 1 /\ changes < MaxChanges
  BY DEF Assign, Change
<1>3. /\ \E new : Grown(new)
      /\ Copy(store') /\ orphans' \subseteq Keys \X Objects /\ Len(pending') <= MaxPending
  BY <1>1, <1>2, ChangedGrows
<1>4. pending' \in Seq(Calls)
  BY <1>3, GrownQueue
<1>5. Copy(api') /\ DOMAIN api \subseteq DOMAIN api'
  BY <1>1 DEF CacheTypes, Copy, With
<1>6. changes' \in 0..MaxChanges
  BY <1>2, PodCacheAssumption DEF CacheTypes, TypeOK, PodCacheAssumption
<1>7. /\ done' \subseteq DOMAIN api' /\ watching' \in BOOLEAN
      /\ DOMAIN index' \subseteq Keys /\ Range(index') \subseteq Objects
  BY <1>2, <1>5, TypesSplit
<1> QED
  BY <1>3, <1>4, <1>5, <1>6, <1>7, TypesNext

(* A completed pod is queued as an update with the keys it had.            *)
LEMMA CompleteGrows ==
  ASSUME CacheTypes, EntryInv, Complete
  PROVE  (\E new : Grown(new)) /\ CacheTypes'
<1>0. Copy(api)
  BY TypesSplit
<1>1. PICK o \in Objs(api) \ done : done' = done \cup {o} /\ Changed(o, api[o])
  BY DEF Complete
<1>2. UNCHANGED <<api, watching, index>> /\ changes' = changes + 1 /\ changes < MaxChanges
  BY DEF Complete, Change
<1>3. o \in Objects /\ o \in DOMAIN api /\ api[o] \in KeySets
  BY <1>0 DEF Copy, Objs
<1>4. With(api, o, api[o]) = api
  BY <1>0, <1>3 DEF With, Copy
<1>5. /\ \E new : Grown(new)
      /\ Copy(store') /\ orphans' \subseteq Keys \X Objects /\ Len(pending') <= MaxPending
  BY <1>1, <1>2, <1>3, <1>4, ChangedGrows
<1>6. pending' \in Seq(Calls)
  BY <1>5, GrownQueue
<1>7. changes' \in 0..MaxChanges
  BY <1>2, PodCacheAssumption DEF CacheTypes, TypeOK, PodCacheAssumption
<1>8. /\ Copy(api') /\ done' \subseteq DOMAIN api' /\ watching' \in BOOLEAN
      /\ DOMAIN index' \subseteq Keys /\ Range(index') \subseteq Objects
  BY <1>0, <1>1, <1>2, <1>3, TypesSplit
<1> QED
  BY <1>5, <1>6, <1>7, <1>8, TypesNext

(* An object that goes is queued as a delete while the watch works, and    *)
(* nothing is queued while it does not: the copy differs then.             *)
LEMMA DisappearGrows ==
  ASSUME CacheTypes, EntryInv, Disappear
  PROVE  (\E new : Grown(new)) /\ CacheTypes'
<1>0. /\ Copy(api) /\ Copy(store) /\ pending \in Seq(Calls) /\ Len(pending) <= MaxPending
      /\ MaxPending \in Nat /\ done \subseteq DOMAIN api /\ watching \in BOOLEAN
      /\ orphans \subseteq Keys \X Objects
      /\ DOMAIN index \subseteq Keys /\ Range(index) \subseteq Objects
  BY TypesSplit, PodCacheAssumption DEF PodCacheAssumption
<1>1. PICK o \in Objs(api) :
        /\ api' = Without(api, {o}) /\ done' = done \ {o}
        /\ IF watching
             THEN /\ Len(pending) < MaxPending
                  /\ pending' = Append(pending, Delete(o, api[o]))
                  /\ store' = Without(store, {o})
             ELSE UNCHANGED <<pending, store>>
  BY DEF Disappear
<1>2. UNCHANGED <<watching, index, orphans>> /\ changes' = changes + 1 /\ changes < MaxChanges
  BY DEF Disappear, Change
<1>3. o \in Objects /\ o \in DOMAIN api /\ api[o] \in KeySets
  BY <1>0 DEF Copy, Objs
<1>4. Copy(api') /\ done' \subseteq DOMAIN api'
  BY <1>0, <1>1 DEF Copy, Without
<1>5. (\E new : Grown(new)) /\ Copy(store') /\ Len(pending') <= MaxPending
  <2>1. CASE watching
    <3> DEFINE c == Delete(o, api[o])
    <3>1. /\ Len(pending) < MaxPending /\ pending' = Append(pending, c)
          /\ store' = Without(store, {o}) /\ store = api
      BY <1>1, <2>1 DEF EntryInv
    <3>2. c \in Calls /\ c.handler = "delete" /\ c.object = o /\ c.keys = api[o]
      BY <1>3, CallsOf DEF Delete
    <3> HIDE DEF c
    <3>3. /\ <<c>> \in Seq(Calls) /\ DOMAIN <<c>> = {1} /\ <<c>>[1] = c
      BY <3>2
    <3>4. pending' = pending \o <<c>> /\ Len(pending') <= MaxPending
      <4>1. Len(Append(pending, c)) = Len(pending) + 1 /\ Len(pending) \in Nat
        BY <1>0, <3>2
      <4> QED
        BY <1>0, <3>1, <3>2, <4>1, AppendIsConcat
    <3>5. /\ DOMAIN store' = DOMAIN store \ {o} /\ Copy(store')
          /\ \A p \in DOMAIN store \ {o} : store'[p] = store[p]
      BY <1>0, <3>1 DEF Copy, Without
    <3>6. ASSUME NEW k, NEW p, Current(k, p)
          PROVE  Current(k, p)' \/ \E j \in DOMAIN <<c>> : Deletes(<<c>>[j], k, p)
      <4>1. CASE p # o
        BY <3>5, <3>6, <4>1 DEF Current
      <4>2. CASE p = o
        <5>1. Deletes(c, k, p)
          BY <3>1, <3>2, <3>6, <4>2 DEF Current, Deletes
        <5> QED
          BY <3>3, <5>1
      <4> QED
        BY <4>1, <4>2
    <3>7. store' = api' /\ orphans \subseteq orphans' /\ index' = index
      BY <1>1, <1>2, <3>1
    <3>8. \A i \in DOMAIN <<c>> : <<c>>[i].handler # "update"
      BY <3>2, <3>3
    <3>9. Grown(<<c>>)
      BY <3>3, <3>4, <3>6, <3>7, <3>8 DEF Grown
    <3> QED
      BY <3>4, <3>5, <3>9
  <2>2. CASE ~watching
    <3>1. UNCHANGED <<pending, store, orphans, index>> /\ ~watching'
      BY <1>1, <1>2, <2>2
    <3>2. << >> \in Seq(Calls) /\ pending' = pending \o << >> /\ DOMAIN << >> = {}
      BY <1>0, <3>1, ConcatEmptySeq
    <3>3. Grown(<< >>)
      BY <3>1, <3>2 DEF Grown, Current
    <3> QED
      BY <1>0, <3>1, <3>3
  <2> QED
    BY <2>1, <2>2
<1>6. pending' \in Seq(Calls)
  BY <1>5, GrownQueue
<1>7. changes' \in 0..MaxChanges
  BY <1>2, PodCacheAssumption DEF CacheTypes, TypeOK, PodCacheAssumption
<1> QED
  BY <1>0, <1>2, <1>4, <1>5, <1>6, <1>7, TypesNext

(* A watch that breaks queues nothing.                                     *)
LEMMA BreakGrows ==
  ASSUME CacheTypes, EntryInv, Break
  PROVE  (\E new : Grown(new)) /\ CacheTypes'
<1>1. UNCHANGED <<api, changes, done, store, pending, index, orphans>> /\ watching' = FALSE
  BY DEF Break
<1>2. << >> \in Seq(Calls) /\ pending' = pending \o << >> /\ DOMAIN << >> = {}
  BY <1>1, TypesSplit, ConcatEmptySeq
<1>3. Grown(<< >>)
  BY <1>1, <1>2 DEF Grown, Current
<1>4. CacheTypes'
  BY <1>1, TypesSplit, TypesNext
<1> QED
  BY <1>3, <1>4

(* The calls of updates and of tombstones for all objects of a copy.       *)
LEMMA UpdatesOf ==
  ASSUME NEW f, Copy(f), NEW s, s \in SetToSeqs({Update(o, f[o]) : o \in Objs(f)})
  PROVE  /\ s \in Seq({Update(o, f[o]) : o \in Objs(f)}) /\ Len(s) <= Cardinality(Objects)
         /\ {Update(o, f[o]) : o \in Objs(f)} \subseteq Calls
<1> DEFINE g == [o \in Objs(f) |-> Update(o, f[o])]
           C == {Update(o, f[o]) : o \in Objs(f)}
<1>1. \A o \in Objs(f) : Update(o, f[o]) \in Calls
  BY CallsOf DEF Objs, Copy
<1>2. Objs(f) \subseteq Objects
  BY DEF Objs
<1>3. g \in Surjection(Objs(f), C)
  BY DEF Surjection
<1>4. s \in Seq(C) /\ Len(s) <= Cardinality(Objects)
  <2> HIDE DEF g, C
  <2>1. s \in SetToSeqs(C)
    BY DEF C
  <2> QED
    BY <1>2, <1>3, <2>1, OrderedCalls
<1> QED
  BY <1>1, <1>4

(* The tombstones of a relist are calls of handlers.                       *)
LEMMA TombstonesOf ==
  ASSUME NEW f, Copy(f), NEW S, S \subseteq Objs(f),
         NEW s, s \in SetToSeqs({Tombstone(o, f[o]) : o \in S})
  PROVE  /\ s \in Seq({Tombstone(o, f[o]) : o \in S})
         /\ {Tombstone(o, f[o]) : o \in S} \subseteq Calls
<1> DEFINE g == [o \in S |-> Tombstone(o, f[o])]
           C == {Tombstone(o, f[o]) : o \in S}
<1>1. \A o \in S : Tombstone(o, f[o]) \in Calls
  BY CallsOf DEF Objs, Copy
<1>2. S \subseteq Objects
  BY DEF Objs
<1>3. g \in Surjection(S, C)
  BY DEF Surjection
<1>4. s \in Seq(C)
  <2> HIDE DEF g, C
  <2>1. s \in SetToSeqs(C)
    BY DEF C
  <2> QED
    BY <1>2, <1>3, <2>1, OrderedCalls
<1> QED
  BY <1>1, <1>4

(* The informer's own steps.                                               *)
LEMMA ResyncGrows ==
  ASSUME CacheTypes, EntryInv, Resync
  PROVE  (\E new : Grown(new)) /\ CacheTypes'
<1>1. UNCHANGED <<api, changes, done, watching, store, index, orphans>> /\ pending = << >>
  BY DEF Resync
<1> DEFINE U == {Update(o, store[o]) : o \in Objs(store)}
<1>2. PICK s : s = pending' /\ s \in SetToSeqs(U)
  BY DEF Resync
<1>3. s \in Seq(U) /\ Len(s) <= Cardinality(Objects) /\ U \subseteq Calls
  BY <1>2, TypesSplit, UpdatesOf
<1>4. \A c \in U : c.object \in DOMAIN store /\ c.keys = store[c.object]
  BY DEF Update, Objs
<1> HIDE DEF U
<1>5. s \in Seq(Calls) /\ \A i \in DOMAIN s : s[i] \in U
  BY <1>3
<1>6. pending' = pending \o s
  BY <1>1, <1>2, <1>5, ConcatEmptySeq
<1>7. Grown(s)
  <2>1. \A k, o : Current(k, o) => Current(k, o)'
    BY <1>1 DEF Current
  <2>2. watching' => store' = api'
    BY <1>1 DEF EntryInv
  <2>3. \A i \in DOMAIN s : s[i].object \in DOMAIN store' /\ s[i].keys = store'[s[i].object]
    BY <1>1, <1>4, <1>5
  <2> QED
    BY <1>1, <1>5, <1>6, <2>1, <2>2, <2>3 DEF Grown
<1>8. Len(pending') <= MaxPending
  <2>1. Cardinality(Objects) \in Nat /\ MaxPending \in Nat /\ MaxPending >= Cardinality(Objects)
    BY PodCacheAssumption, FS_CardinalityType DEF PodCacheAssumption
  <2>2. Len(s) \in Nat
    BY <1>5
  <2> QED
    BY <1>2, <1>3, <2>1, <2>2
<1>9. CacheTypes'
  BY <1>1, <1>2, <1>5, <1>8, TypesSplit, TypesNext
<1> QED
  BY <1>7, <1>9

(* A new list queues updates for all there is and a tombstone for all      *)
(* that has gone: what the copy has after it is exact.                     *)
LEMMA RelistGrows ==
  ASSUME CacheTypes, EntryInv, Relist
  PROVE  (\E new : Grown(new)) /\ CacheTypes'
<1>0. /\ Copy(api) /\ Copy(store) /\ pending \in Seq(Calls) /\ orphans \subseteq Keys \X Objects
  BY TypesSplit
<1> DEFINE U == {Update(o, api[o]) : o \in Objs(api)}
           T == {Tombstone(o, store[o]) : o \in Objs(store) \ Objs(api)}
           kept(o) == IF o \in DOMAIN api THEN api[o] ELSE {}
<1>1. PICK u \in SetToSeqs(U), t \in SetToSeqs(T) :
        Len(pending \o u \o t) <= MaxPending /\ pending' = pending \o u \o t
  BY DEF Relist
<1>2. /\ UNCHANGED <<api, changes, done, index>> /\ store' = api /\ watching' = TRUE
      /\ orphans' = orphans \cup UNION {Dropped(o, kept(o)) : o \in Objs(store)}
  BY DEF Relist
<1>3. u \in Seq(U) /\ U \subseteq Calls
  BY <1>0, UpdatesOf
<1>4. t \in Seq(T) /\ T \subseteq Calls
  BY <1>0, TombstonesOf
<1>5. /\ \A c \in U : c.object \in DOMAIN api /\ c.keys = api[c.object]
      /\ \A c \in T : c.handler # "update"
  BY DEF Update, Tombstone, Objs
<1> HIDE DEF U, T
<1>6. u \in Seq(U \cup T) /\ t \in Seq(U \cup T) /\ u \in Seq(Calls) /\ t \in Seq(Calls)
  BY <1>3, <1>4
<1> DEFINE s == u \o t
<1>7. s \in Seq(Calls) /\ s \in Seq(U \cup T) /\ pending' = pending \o s
  <2>1. u \o t \in Seq(Calls) /\ u \o t \in Seq(U \cup T)
    BY <1>6
  <2>2. (pending \o u) \o t = pending \o (u \o t)
    BY <1>0, <1>6, ConcatAssociative
  <2> QED
    BY <1>1, <2>1, <2>2
<1> HIDE DEF s
<1>8. \A i \in DOMAIN s : s[i] \in U \cup T
  BY <1>7
<1>9. \A i \in DOMAIN s : s[i].handler = "update" =>
        s[i].object \in DOMAIN store' /\ s[i].keys = store'[s[i].object]
  BY <1>2, <1>5, <1>8
<1>10. ASSUME NEW k, NEW o, Current(k, o)
       PROVE  Current(k, o)' \/ <<k, o>> \in orphans'
  <2>1. o \in DOMAIN store /\ k \in store[o] /\ o \in Objs(store)
    BY <1>0, <1>10 DEF Current, Copy, Objs
  <2>2. CASE o \in DOMAIN api /\ k \in api[o]
    BY <1>2, <2>2 DEF Current
  <2>3. CASE ~(o \in DOMAIN api /\ k \in api[o])
    <3>1. <<k, o>> \in Dropped(o, kept(o))
      BY <2>1, <2>3 DEF Dropped
    <3> QED
      BY <1>2, <2>1, <3>1
  <2> QED
    BY <2>2, <2>3
<1>11. Grown(s)
  <2>1. index' = index /\ orphans \subseteq orphans' /\ store' = api'
    BY <1>2
  <2> QED
    BY <1>7, <1>9, <1>10, <2>1 DEF Grown
<1>12. orphans' \subseteq Keys \X Objects
  <2>1. ASSUME NEW o \in Objs(store) PROVE Dropped(o, kept(o)) \subseteq Keys \X Objects
    <3>1. o \in Objects /\ o \in DOMAIN store /\ store[o] \subseteq Keys
      BY <1>0 DEF Objs, Copy, Keys
    <3> QED
      BY <3>1 DEF Dropped
  <2> QED
    BY <1>0, <1>2, <2>1
<1>13. pending' \in Seq(Calls)
  BY <1>11, GrownQueue
<1>14. /\ changes' \in 0..MaxChanges /\ done' \subseteq DOMAIN api' /\ watching' \in BOOLEAN
       /\ DOMAIN index' \subseteq Keys /\ Range(index') \subseteq Objects
       /\ Copy(api') /\ Copy(store') /\ Len(pending') <= MaxPending
  BY <1>0, <1>1, <1>2, TypesSplit
<1>15. CacheTypes'
  BY <1>12, <1>13, <1>14, TypesNext
<1> QED
  BY <1>11, <1>15

(* The informer calls a handler.                                           *)
LEMMA DeliverKeeps ==
  ASSUME CacheTypes, EntryInv, Deliver
  PROVE  EntryInv' /\ CacheTypes'
<1> DEFINE c == Head(pending)
           m == Len(pending)
<1>0. /\ pending \in Seq(Calls) /\ pending # << >> /\ Len(pending) <= MaxPending
      /\ DOMAIN index \subseteq Keys /\ Range(index) \subseteq Objects
      /\ MaxPending \in Nat
  BY TypesSplit, PodCacheAssumption DEF Deliver, PodCacheAssumption
<1>1. /\ UNCHANGED <<api, changes, done, watching, store, orphans>>
      /\ pending' = Tail(pending) /\ Handle(c)
  BY DEF Deliver
<1>2. /\ c \in Calls /\ c = pending[1] /\ m \in Nat \ {0} /\ DOMAIN pending = 1..m
      /\ pending' \in Seq(Calls) /\ Len(pending') = m - 1 /\ DOMAIN pending' = 1..(m - 1)
      /\ \A i \in 1..(m - 1) : pending'[i] = pending[i + 1]
  BY <1>0, <1>1
<1> HIDE DEF c, m
<1>3. ASSUME NEW k, NEW o, NEW i \in 0..m, Accounted(k, o, i + 1)
      PROVE  Accounted(k, o, i)'
  <2>1. CASE \E j \in DOMAIN pending : j > i + 1 /\ Deletes(pending[j], k, o)
    <3>1. PICK j \in DOMAIN pending : j > i + 1 /\ Deletes(pending[j], k, o)
      BY <2>1
    <3>2. j - 1 \in DOMAIN pending' /\ j - 1 > i /\ pending'[j - 1] = pending[j]
      BY <1>2, <3>1
    <3> QED
      BY <3>1, <3>2 DEF Accounted, Deletes
  <2>2. CASE Current(k, o) \/ <<k, o>> \in orphans
    BY <1>1, <2>2 DEF Accounted, Current
  <2> QED
    BY <1>3, <2>1, <2>2 DEF Accounted
<1>4. ASSUME NEW k, NEW o, Accounted(k, o, 0), ~Deletes(c, k, o)
      PROVE  Accounted(k, o, 1)
  <2>1. CASE \E j \in DOMAIN pending : j > 0 /\ Deletes(pending[j], k, o)
    <3>1. PICK j \in DOMAIN pending : Deletes(pending[j], k, o)
      BY <2>1
    <3>2. j # 1
      BY <1>2, <1>4, <3>1
    <3>3. j > 1
      BY <1>2, <3>2
    <3> QED
      BY <3>1, <3>3 DEF Accounted
  <2>2. CASE Current(k, o) \/ <<k, o>> \in orphans
    BY <2>2 DEF Accounted
  <2> QED
    BY <1>4, <2>1, <2>2 DEF Accounted
<1>5. ASSUME NEW i \in DOMAIN pending', pending'[i].handler = "update", NEW k \in pending'[i].keys
      PROVE  Accounted(k, pending[i].object, i)'
  <2>1. pending'[i] = pending[i + 1] /\ i + 1 \in DOMAIN pending /\ i \in 0..m
    BY <1>2
  <2>2. Accounted(k, pending[i + 1].object, i + 1)
    BY <1>5, <2>1 DEF EntryInv
  <2>3. \A o : Accounted(k, o, i + 1) => Accounted(k, o, i)'
    BY <1>3, <2>1
  <2> QED
    BY <2>1, <2>2, <2>3 DEF Accounted, Current, Deletes
(* An entry that the handler leaves, or makes.                             *)
<1>6. ASSUME NEW k \in DOMAIN index'
      PROVE  /\ Accounted(k, index'[k], 1)
             /\ k \in Keys /\ index'[k] \in Objects
  <2>1. CASE k \in DOMAIN index /\ index'[k] = index[k] /\ ~Deletes(c, k, index[k])
    <3>1. Accounted(k, index[k], 0)
      BY <2>1 DEF EntryInv
    <3>2. Accounted(k, index[k], 1)
      BY <1>4, <2>1, <3>1
    <3> QED
      BY <1>0, <2>1, <3>2 DEF Range
  <2>2. CASE c.handler = "update"
    <3>1. /\ DOMAIN index' = DOMAIN index \cup c.keys
          /\ index'[k] = IF k \in c.keys THEN c.object ELSE index[k]
      BY <1>1, <2>2 DEF Handle, SyncPod
    <3>2. CASE k \in c.keys
      <4>1. 1 \in DOMAIN pending /\ pending[1] = c
        BY <1>2
      <4>2. Accounted(k, c.object, 1)
        BY <2>2, <3>2, <4>1 DEF EntryInv
      <4>3. k \in Keys /\ c.object \in Objects
        BY <1>2, <3>2 DEF Calls, Keys
      <4> QED
        BY <3>1, <3>2, <4>2, <4>3
    <3>3. CASE k \notin c.keys
      BY <2>1, <2>2, <3>1, <3>3 DEF Deletes
    <3> QED
      BY <3>2, <3>3
  <2>3. CASE c.handler = "delete"
    <3>1. k \in DOMAIN index \ c.keys /\ index'[k] = index[k]
      BY <1>1, <2>3 DEF Handle, RemovePod, Without
    <3> QED
      BY <2>1, <3>1 DEF Deletes
  <2>4. CASE c.handler = "tombstone"
    <3>1. index' = index
      BY <1>1, <2>4 DEF Handle
    <3> QED
      BY <2>1, <2>4, <3>1 DEF Deletes
  <2>5. c.handler \in {"update", "delete", "tombstone"}
    BY <1>2 DEF Calls
  <2> QED
    BY <2>2, <2>3, <2>4, <2>5
<1>7. ASSUME NEW k \in DOMAIN index'
      PROVE  Accounted(k, index[k], 0)'
  <2>1. \A o : Accounted(k, o, 1) => Accounted(k, o, 0)'
    BY <1>2, <1>3
  <2>2. Accounted(k, index'[k], 1)
    BY <1>6
  <2> QED
    BY <2>1, <2>2 DEF Accounted, Current, Deletes
<1>8. EntryInv'
  <2>1. watching' => store' = api'
    BY <1>1 DEF EntryInv
  <2> QED
    BY <1>5, <1>7, <2>1 DEF EntryInv
<1>9. /\ DOMAIN index' \subseteq Keys /\ Range(index') \subseteq Objects
  BY <1>6 DEF Range
<1>10. Len(pending') <= MaxPending
  BY <1>0, <1>2 DEF m
<1>11. CacheTypes'
  BY <1>1, <1>2, <1>9, <1>10, TypesSplit, TypesNext
<1> QED
  BY <1>8, <1>11

(* The inductive invariant.                                               *)
CacheInv == CacheTypes /\ EntryInv

(* Types and accounts hold for ever.                                       *)
LEMMA CacheInvCorrect == Spec => []CacheInv
<1>1. Init => CacheInv
  <2> SUFFICES ASSUME Init PROVE CacheInv
    OBVIOUS
  <2>1. /\ Copy(api) /\ Copy(store) /\ pending \in Seq(Calls) /\ Len(pending) = 0
        /\ DOMAIN pending = {} /\ DOMAIN index = {} /\ store = api
    BY DEF Init, Copy
  <2>2. Range(api) = {} /\ Range(store) = {} /\ Range(index) = {} /\ Range(pending) = {}
    BY DEF Init, Range
  <2>3. EntryInv
    BY <2>1 DEF EntryInv
  <2>4. TypeOK
    BY <2>1, <2>2, PodCacheAssumption DEF Init, TypeOK, PodCacheAssumption
  <2> QED
    BY <2>1, <2>3, <2>4 DEF CacheInv, CacheTypes
<1>2. CacheInv /\ [Next]_vars => CacheInv'
  <2> SUFFICES ASSUME CacheInv, [Next]_vars PROVE CacheInv'
    OBVIOUS
  <2>1. CacheTypes /\ EntryInv
    BY DEF CacheInv
  <2>2. CASE Assign \/ Complete \/ Disappear \/ Break \/ Relist \/ Resync
    <3>1. (\E new : Grown(new)) /\ CacheTypes'
      BY <2>1, <2>2, AssignGrows, CompleteGrows, DisappearGrows, BreakGrows, RelistGrows, ResyncGrows
    <3>2. EntryInv'
      BY <2>1, <3>1, GrownKeeps
    <3> QED
      BY <3>1, <3>2 DEF CacheInv
  <2>3. CASE Deliver
    BY <2>1, <2>3, DeliverKeeps DEF CacheInv
  <2>4. CASE UNCHANGED vars
    <3>1. UNCHANGED <<api, changes, done, watching, store, pending, index, orphans>>
      BY <2>4 DEF vars
    <3>2. EntryInv'
      BY <2>1, <3>1 DEF EntryInv, Accounted, Current, Deletes
    <3>3. CacheTypes'
      BY <2>1, <3>1, TypesSplit, TypesNext
    <3> QED
      BY <3>2, <3>3 DEF CacheInv
  <2> QED
    BY <2>2, <2>3, <2>4 DEF Next
<1> QED
  BY <1>1, <1>2, PTL DEF Spec

(* Cluster, informer and cache are well typed, and the queue of handler    *)
(* calls within its bound, whatever changes, breaks, lists and resyncs     *)
(* come.                                                                   *)
THEOREM TypeCorrect == Spec => []TypeOK
<1>1. CacheInv => TypeOK
  BY DEF CacheInv, CacheTypes
<1> QED
  BY <1>1, CacheInvCorrect, PTL

(* An entry whose object has gone, or has the key no longer, is removed by *)
(* a delete still in the queue, or is one of those that nothing removes:   *)
(* an address an update took away, or a delete that came as a tombstone.   *)
THEOREM EntriesCorrect == Spec => []EntriesAccounted
<1>1. CacheInv => EntriesAccounted
  BY DEF CacheInv, EntryInv, Accounted, Current, Deletes, EntriesAccounted
<1> QED
  BY <1>1, CacheInvCorrect, PTL
=============================================================================
