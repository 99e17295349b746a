------------------------------ MODULE PodCache ------------------------------
(***************************************************************************)
(* agent/pod_cache.go: one of its maps and the informer that feeds it.     *)
(* The program has two of them with handlers of the same shape: pods with  *)
(* the map byIP, where an object has one key, its IP; and services with    *)
(* the map of that name, where it has one key for each port.  The map      *)
(* byNetNS is left out: resolveContainerPID returns 0, so that no pod has  *)
(* a network namespace and nothing is ever stored there.                   *)
(*                                                                         *)
(* The cluster and the informer are external.  The informer has a copy of  *)
(* the objects and calls the handlers one at a time, in the order of its   *)
(* queue.  Its watch can break; what happened meanwhile is found out by    *)
(* listing again.  Every 30 seconds it calls the update handler for all of *)
(* its copy (the resync period given to NewPodCache).                      *)
(***************************************************************************)
EXTENDS Naturals, Sequences, SequencesExt, FiniteSets

CONSTANTS
  Objects,    \* pods, or services
  KeySets,    \* the sets of keys that an object can have
  MaxChanges, \* bound of the model: changes in the cluster
  MaxPending  \* bound of the model: calls of handlers in the queue

ASSUME PodCacheAssumption ==
  /\ Objects # {}
  /\ IsFiniteSet(Objects)
  /\ MaxChanges \in Nat
  /\ MaxPending \in Nat /\ MaxPending >= Cardinality(Objects)

VARIABLES
  api,       \* cluster: the objects and their keys
  changes,   \* cluster: number of changes so far
  done,      \* cluster: completed pods, whose addresses are free again
  watching,  \* informer: the watch works
  store,     \* informer: its copy of api
  pending,   \* informer: calls of handlers to come
  index,     \* the map of the cache: the object found under a key
  orphans    \* history: pairs of a key and an object of which no delete told

vars == <<api, changes, done, watching, store, pending, index, orphans>>

Keys == UNION KeySets
Objs(f) == {o \in Objects : o \in DOMAIN f}
InUse == UNION {api[o] : o \in Objs(api) \ done}
With(f, o, x) == [p \in DOMAIN f \cup {o} |-> IF p = o THEN x ELSE f[p]]
Without(f, S) == [p \in DOMAIN f \ S |-> f[p]]

Init ==
  /\ api = << >> /\ changes = 0 /\ done = {}
  /\ watching = TRUE
  /\ store = << >> /\ pending = << >>
  /\ index = << >>
  /\ orphans = {}

-----------------------------------------------------------------------------
(* The cluster and the informer.                                           *)

Update(o, keys) == [handler |-> "update", object |-> o, keys |-> keys]
Delete(o, keys) == [handler |-> "delete", object |-> o, keys |-> keys]
Tombstone(o, keys) == [handler |-> "tombstone", object |-> o, keys |-> keys]

(* The keys of the informer's copy that a new version does not have.       *)
Dropped(o, keys) ==
  {<<k, o>> : k \in IF o \in DOMAIN store THEN store[o] \ keys ELSE {}}

Change ==
  /\ changes < MaxChanges
  /\ changes' = changes + 1

Changed(o, keys) ==
  IF watching
    THEN /\ Len(pending) < MaxPending
         /\ pending' = Append(pending, Update(o, keys))
         /\ store' = With(store, o, keys)
         /\ orphans' = orphans \cup Dropped(o, keys)
    ELSE UNCHANGED <<pending, store, orphans>>

(* A new object, or another address or port for an old one.  The cluster   *)
(* gives an address away again as soon as the pod that had it is done.     *)
Assign ==
  /\ Change
  /\ \E o \in Objects \ done, keys \in KeySets :
       /\ keys \cap (InUse \ (IF o \in DOMAIN api THEN api[o] ELSE {})) = {}
       /\ o \in DOMAIN api => api[o] # keys
       /\ api' = With(api, o, keys)
       /\ Changed(o, keys)
  /\ UNCHANGED <<done, watching, index>>

(* A pod completes; it stays in the cluster, with its address.             *)
Complete ==
  /\ Change
  /\ \E o \in Objs(api) \ done :
       /\ done' = done \cup {o}
       /\ Changed(o, api[o])
  /\ UNCHANGED <<api, watching, index>>

Disappear ==
  /\ Change
  /\ \E o \in Objs(api) :
       /\ api' = Without(api, {o})
       /\ done' = done \ {o}
       /\ IF watching
            THEN /\ Len(pending) < MaxPending
                 /\ pending' = Append(pending, Delete(o, api[o]))
                 /\ store' = Without(store, {o})
            ELSE UNCHANGED <<pending, store>>
  /\ UNCHANGED <<watching, index, orphans>>

Break ==
  /\ watching
  /\ watching' = FALSE
  /\ UNCHANGED <<api, changes, done, store, pending, index, orphans>>

(* Lists again: an update for each object there is, in any order, and a    *)
(* DeletedFinalStateUnknown for each that has gone.                        *)
Relist ==
  /\ ~watching
  /\ watching' = TRUE
  /\ \E updates \in SetToSeqs({Update(o, api[o]) : o \in Objs(api)}),
        tombstones \in SetToSeqs({Tombstone(o, store[o]) : o \in Objs(store) \ Objs(api)}) :
       /\ Len(pending \o updates \o tombstones) <= MaxPending
       /\ pending' = pending \o updates \o tombstones
  /\ store' = api
  /\ orphans' =
       orphans \cup UNION {Dropped(o, IF o \in DOMAIN api THEN api[o] ELSE {}) : o \in Objs(store)}
  /\ UNCHANGED <<api, changes, done, index>>

(* One call of the update handler for each object, in any order; in the    *)
(* model only when the queue is empty.                                     *)
Resync ==
  /\ pending = << >> /\ Objs(store) # {}
  /\ pending' \in SetToSeqs({Update(o, store[o]) : o \in Objs(store)})
  /\ UNCHANGED <<api, changes, done, watching, store, index, orphans>>

-----------------------------------------------------------------------------
(* The handlers of the cache.  syncPod does not look at the phase of a     *)
(* pod, nor removePod at the pod that the key leads to.                    *)

SyncPodIfAbsent(o, keys) ==
  index' = [k \in DOMAIN index \cup keys |-> IF k \in DOMAIN index THEN index[k] ELSE o]

SyncPod(o, keys) ==
  index' = [k \in DOMAIN index \cup keys |-> IF k \in keys THEN o ELSE index[k]]

RemovePodByNil(keys) ==
  index' = [k \in DOMAIN index |-> IF k \in keys THEN "nil" ELSE index[k]]

RemovePodFromOne(keys) ==
  \E k \in keys : index' = Without(index, {k})

RemovePod(keys) == index' = Without(index, keys)

(* The delete handler ignores what is not a pod (a service), so a          *)
(* DeletedFinalStateUnknown.                                               *)
Handle(call) ==
  CASE call.handler = "update"    -> SyncPod(call.object, call.keys)
    [] call.handler = "delete"    -> RemovePod(call.keys)
    [] call.handler = "tombstone" -> UNCHANGED index

Deliver ==
  /\ pending # << >>
  /\ Handle(Head(pending))
  /\ pending' = Tail(pending)
  /\ UNCHANGED <<api, changes, done, watching, store, orphans>>

-----------------------------------------------------------------------------
Next ==
  \/ Assign \/ Complete \/ Disappear
  \/ Break \/ Relist \/ Resync
  \/ Deliver

Spec == Init /\ [][Next]_vars

(* The informer lists again when its watch has broken and resyncs for      *)
(* ever; strong fairness, since the bound on the queue can hold it up.     *)
FairSpec ==
  /\ Spec
  /\ WF_vars(Deliver)
  /\ SF_vars(Relist)
  /\ SF_vars(Resync)

-----------------------------------------------------------------------------
(* Types.                                                                  *)
TypeOK ==
  /\ DOMAIN api \subseteq Objects /\ Range(api) \subseteq KeySets
  /\ changes \in 0..MaxChanges
  /\ done \subseteq DOMAIN api
  /\ watching \in BOOLEAN
  /\ DOMAIN store \subseteq Objects /\ Range(store) \subseteq KeySets
  /\ Len(pending) <= MaxPending
  /\ Range(pending) \subseteq
       [handler : {"update", "delete", "tombstone"}, object : Objects, keys : KeySets]
  /\ DOMAIN index \subseteq Keys /\ Range(index) \subseteq Objects
  /\ orphans \subseteq Keys \X Objects

(* An entry outlives its object, or its object's address, only in the ways *)
(* known: a delete or an update that is still to be delivered, an address  *)
(* that an update took away, or a delete that came as a                    *)
(* DeletedFinalStateUnknown.  Resyncs never bring one back.                *)
EntriesAccounted ==
  \A k \in DOMAIN index :
    \/ index[k] \in DOMAIN store /\ k \in store[index[k]]
    \/ \E i \in DOMAIN pending :
          /\ pending[i].handler = "delete" /\ pending[i].object = index[k]
          /\ k \in pending[i].keys
    \/ <<k, index[k]>> \in orphans

Sole(o, k) ==
  /\ o \in Objs(api) \ done /\ k \in api[o]
  /\ \A p \in Objs(api) \ {o} : k \notin api[p]

(* Attribution heals: a running object that is the only one with a key is  *)
(* found under it at some time, whatever was lost, left over or removed    *)
(* under that key before, by removePod for an older pod in particular.     *)
RunningFound ==
  \A o \in Objects, k \in Keys :
    Sole(o, k) ~> (k \in DOMAIN index /\ index[k] = o) \/ ~Sole(o, k)
=============================================================================
