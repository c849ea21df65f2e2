-------------------------- MODULE InformerRegistry --------------------------
(***************************************************************************)
(* How the status agent decides which workload informers run.              *)
(*                                                                         *)
(* An AppliedManifestWork (a "work") lists the objects the OCM work agent  *)
(* applied, each by GVR and UID.  Worker goroutines reconcile works        *)
(* (handleAppliedManifestWork); every addition is handed to a new          *)
(* goroutine (`go a.startInformers`), every removal is done by the worker  *)
(* itself (stopInformers).  Both edit objectsCount, informers, listers and *)
(* stoppers, whose mutexes protect one map operation at a time and never   *)
(* two together: one action below is one such operation.                   *)
(***************************************************************************)
EXTENDS SafeMaps

CONSTANTS
    Works,            \* names of AppliedManifestWorks
    UIDs,             \* UIDs of workload objects
    Kinds,            \* GVKs, each standing for its lister key and its GVR
    KindOf,           \* the GVK of each object
    Excluded,         \* GVKs of excludedGVKs
    MayList,          \* the objects each work may ever list
    Workers,          \* worker goroutines of Agent.run
    Starters,         \* slots for startInformers goroutines alive at one time
    None,             \* no key, no object
    InitServed,       \* GVKs the managed cluster serves at first
    CRDChurn,         \* may CRDs be installed and removed?
    DiscoveryMayFail, \* may getRestMapper return an error?
    Pace,             \* how works change: see ApplyWork
    MaxChanges,       \* bound on changes of works and CRDs
    MaxRestarts       \* bound on crashes and restarts of the agent's process

ASSUME ConstantsAssumption ==
    /\ KindOf \in [UIDs -> Kinds]
    /\ Excluded \subseteq Kinds
    /\ MayList \in [Works -> SUBSET UIDs]
    /\ None \notin UIDs
    /\ None \notin Works \X Nat
    /\ InitServed \subseteq Kinds
    /\ CRDChurn \in BOOLEAN /\ DiscoveryMayFail \in BOOLEAN
    /\ Pace \in {"free", "stepwise"}
    /\ MaxChanges \in Nat /\ MaxRestarts \in Nat

VARIABLES
    \* The managed cluster, as the AppliedManifestWork informer's cache has it.
    present,    \* works that exist
    applied,    \* work -> the UIDs its status lists ({} when absent)
    served,     \* GVKs that discovery returns
    changes,    \* changes made so far
    \* Event delivery and the work queue.
    events,     \* work -> notifications whose handler has not run yet
    dirty,      \* keys to process (client-go workqueue)
    waiting,    \* keys in rate-limited delay
    ptrs,       \* DeletedObject pointers allocated so far
    \* The agent's shared maps.
    tracked,    \* trackedAppliedManifests: work -> UIDs ({} when absent)
    count,      \* objectsCount: GVK -> set of UIDs
    informers,  \* GVK -> informer instance (0 when absent)
    listers,    \* GVK -> informer instance whose lister it is (0 when absent)
    stoppers,   \* GVK -> informer instance whose channel it is (0 when absent)
    running,    \* GVK -> informer instances started and not stopped
    born,       \* informer instances created so far
    mapper,     \* restMapper: [ok, kinds]; ok = FALSE is the nil interface
    \* Goroutines.
    worker, starter,
    fault,      \* the panic that ended the process, or "none"
    restarts,
    \* History variables; no action reads them.
    deleted,    \* works deleted since the process started
    abandoned,  \* UIDs a startInformers goroutine returned without counting
    leaked      \* UIDs stopInformers returned without releasing

clusterVars == <<present, applied, served, changes, deleted>>
queueVars   == <<events, dirty, waiting, ptrs>>
mapVars     == <<informers, listers, stoppers, running, born>>
memoVars    == <<tracked, count, mapper>>
sharedVars  == <<mapVars, memoVars>>
miscVars    == <<fault, restarts, abandoned, leaked>>
outerVars   == <<clusterVars, miscVars>>
vars == <<outerVars, queueVars, sharedVars, worker, starter>>
-----------------------------------------------------------------------------
(* A key is a work name and a DeletedObject pointer, 0 for nil.  Pointers  *)
(* are compared by identity, so every deletion makes a key of its own.     *)
Key    == Works \X Nat
Mapper == [ok : BOOLEAN, kinds : SUBSET Kinds]
KindsOf(S) == {KindOf[u] : u \in S}

WorkerPC  == {"idle", "get", "set", "untrack", "stop", "delUID", "count",
              "close", "delInformer", "delLister", "delStopper", "assign",
              "forget"}
StarterPC == {"idle", "discover", "assign", "loop", "count", "setInformer",
              "setLister", "setStopper"}
\* Worker steps inside stopInformer, after close(stopper).
Closing   == {"delInformer", "delLister", "delStopper"}

WorkerState  == [pc : WorkerPC, key : Key \cup {None}, gone : BOOLEAN,
                 info : SUBSET UIDs, todo : SUBSET UIDs,
                 cur : UIDs \cup {None}, snap : Mapper]
StarterState == [pc : StarterPC, todo : SUBSET UIDs, cur : UIDs \cup {None},
                 id : Nat, snap : Mapper]

NoMapper    == [ok |-> FALSE, kinds |-> {}]
IdleWorker  == [pc |-> "idle", key |-> None, gone |-> FALSE, info |-> {},
                todo |-> {}, cur |-> None, snap |-> NoMapper]
IdleStarter == [pc |-> "idle", todo |-> {}, cur |-> None, id |-> 0,
                snap |-> NoMapper]

TypeOK ==
    /\ present \subseteq Works
    /\ applied \in [Works -> SUBSET UIDs]
    /\ served \subseteq Kinds
    /\ changes \in Nat
    /\ deleted \subseteq Works
    /\ events \in [Works -> Nat]
    /\ dirty \subseteq Key
    /\ waiting \subseteq Key
    /\ ptrs \in Nat
    /\ tracked \in [Works -> SUBSET UIDs]
    /\ count \in [Kinds -> SUBSET UIDs]
    /\ informers \in [Kinds -> Nat]
    /\ listers \in [Kinds -> Nat]
    /\ stoppers \in [Kinds -> Nat]
    /\ running \in [Kinds -> SUBSET Nat]
    /\ born \in Nat
    /\ mapper \in Mapper
    /\ worker \in [Workers -> WorkerState]
    /\ starter \in [Starters -> StarterState]
    /\ fault \in {"none", "nilMapper", "nilStopper", "closedStopper", "crash"}
    /\ restarts \in Nat
    /\ abandoned \subseteq UIDs /\ leaked \subseteq UIDs

(* The agent has nothing left to do.  Keys in rate-limited delay do not    *)
(* count: the key of a work that lists nothing is requeued for ever.       *)
Quiet ==
    /\ \A n \in Works : events[n] = 0
    /\ dirty = {}
    /\ \A w \in Workers : worker[w].pc = "idle"
    /\ \A s \in Starters : starter[s].pc = "idle"

up == fault = "none"

(* The keys workers hold: Get does not hand them out until they are Done.  *)
processing == {worker[w].key : w \in Workers}
-----------------------------------------------------------------------------
(* The managed cluster.  A work's list is replaced by any other list of    *)
(* objects of served kinds, as fast as Pace allows: at any time ("free"),  *)
(* or only while the agent is quiet, by a list that only adds objects to   *)
(* those it tracks for the work or only takes some away ("stepwise").      *)
ApplyWork(n, S) ==
    /\ changes < MaxChanges
    /\ n \notin present \/ S # applied[n]
    /\ KindsOf(S \ applied[n]) \subseteq served
    /\ Pace = "stepwise" => Quiet /\ (S \subseteq tracked[n] \/ tracked[n] \subseteq S)
    /\ present' = present \cup {n}
    /\ applied' = [applied EXCEPT ![n] = S]
    /\ events' = [events EXCEPT ![n] = @ + 1]
    /\ changes' = changes + 1
    /\ UNCHANGED <<served, deleted, dirty, waiting, ptrs, sharedVars,
                   worker, starter, miscVars>>

DeleteWork(n) ==
    /\ changes < MaxChanges
    /\ n \in present
    /\ Pace = "stepwise" => Quiet
    /\ present' = present \ {n}
    /\ applied' = [applied EXCEPT ![n] = {}]
    /\ events' = [events EXCEPT ![n] = @ + 1]
    /\ deleted' = deleted \cup {n}
    /\ changes' = changes + 1
    /\ UNCHANGED <<served, dirty, waiting, ptrs, sharedVars, worker,
                   starter, miscVars>>

ChangeCRD(k) ==
    /\ CRDChurn /\ changes < MaxChanges
    /\ served' = IF k \in served THEN served \ {k} ELSE served \cup {k}
    /\ changes' = changes + 1
    /\ UNCHANGED <<present, applied, deleted, queueVars, sharedVars, worker,
                   starter, miscVars>>
-----------------------------------------------------------------------------
(* Event handler and work queue.  The handler looks the object up in the   *)
(* lister as it is now, not as it was when the event was made.             *)
enqueueObject(n) ==
    /\ up /\ events[n] > 0
    /\ events' = [events EXCEPT ![n] = @ - 1]
    /\ \/ /\ n \in present
          /\ dirty' = dirty \cup {<<n, 0>>}
          /\ UNCHANGED ptrs
       \/ /\ n \notin present
          /\ ptrs' = ptrs + 1
          /\ dirty' = dirty \cup {<<n, ptrs'>>}
    /\ UNCHANGED <<outerVars, waiting, sharedVars, worker, starter>>

(* The delay of AddRateLimited ends: the key is added again.               *)
AddRateLimitedFires(k) ==
    /\ up /\ k \in waiting
    /\ waiting' = waiting \ {k}
    /\ dirty' = dirty \cup {k}
    /\ UNCHANGED <<outerVars, events, ptrs, sharedVars, worker, starter>>

(* workqueue.Get and reconcile's lookup, up to the first access to the     *)
(* shared maps.                                                            *)
reconcile(w, k) ==
    /\ up /\ worker[w].pc = "idle"
    /\ k \in dirty \ processing
    /\ dirty' = dirty \ {k}
    /\ LET n == k[1] IN
       \* No GVRs yet: requeued, and Done by the same worker.
       \/ /\ n \in present /\ applied[n] = {}
          /\ waiting' = waiting \cup {k}
          /\ UNCHANGED worker
       \/ /\ n \in present /\ applied[n] # {}
          /\ worker' = [worker EXCEPT ![w] = [IdleWorker EXCEPT
                            !.pc = "get", !.key = k, !.info = applied[n]]]
          /\ UNCHANGED waiting
       \/ /\ n \notin present /\ k[2] # 0
          /\ worker' = [worker EXCEPT ![w] = [IdleWorker EXCEPT
                            !.pc = "untrack", !.key = k, !.gone = TRUE]]
          /\ UNCHANGED waiting
       \* The object no longer exists and this is not a delete event.
       \/ /\ n \notin present /\ k[2] = 0
          /\ UNCHANGED <<waiting, worker>>
    /\ UNCHANGED <<outerVars, events, ptrs, sharedVars, starter>>

(* reconcile returns without error: Forget and Done.                       *)
Done(w) == worker' = [worker EXCEPT ![w] = IdleWorker]

Goto(w, pc) == worker' = [worker EXCEPT ![w].pc = pc]

Panic(reason) == fault' = reason
-----------------------------------------------------------------------------
(* GetAddedRemovedInfo on UIDs; AddedRemovedInfo.tla has its loops.        *)
Added(base, updated) == updated \ base

\* Mutant: all that was listed before counts as removed.
RemovedAll(base, updated) == base
Removed(base, updated) == base \ updated

(* reflect.DeepEqual of two infos: never of different sets of objects, and *)
(* of equal sets only when they are listed in the same order.              *)
\* Mutant: a list that is tracked already counts as unchanged.
AlreadyTracked(info, oldinfo) == IF oldinfo # {} THEN {TRUE} ELSE {FALSE}
DeepEqual(info, oldinfo) == IF info = oldinfo THEN BOOLEAN ELSE {FALSE}

(* handleAppliedManifestWork, the work exists.                             *)
trackedGet(w) ==
    /\ up /\ worker[w].pc = "get"
    /\ LET old == tracked[worker[w].key[1]] IN
       \/ /\ TRUE \in DeepEqual(worker[w].info, old)
          /\ Done(w)
       \/ /\ FALSE \in DeepEqual(worker[w].info, old)
          /\ worker' = [worker EXCEPT ![w].pc = "set", ![w].todo = old]
    /\ UNCHANGED <<outerVars, queueVars, sharedVars, starter>>

(* trackedAppliedManifests.Set, then `go a.startInformers(added)`; with an *)
(* earlier list stopInformers(removed) follows.                            *)
trackedSet(w, s) ==
    /\ up /\ worker[w].pc = "set" /\ starter[s].pc = "idle"
    /\ LET old  == worker[w].todo
           info == worker[w].info
       IN  /\ tracked' = Set(tracked, worker[w].key[1], info)
           /\ starter' = [starter EXCEPT ![s] = [IdleStarter EXCEPT
                              !.pc = "discover", !.todo = Added(old, info)]]
           /\ \/ /\ old = {}
                 /\ Done(w)
              \/ /\ old # {}
                 /\ worker' = [worker EXCEPT ![w].pc = "stop",
                                             ![w].todo = Removed(old, info)]
    /\ UNCHANGED <<outerVars, queueVars, mapVars, count, mapper>>

(* handleAppliedManifestWork, the work is gone.                            *)
trackedGetGone(w) ==
    /\ up /\ worker[w].pc = "untrack"
    /\ LET old == tracked[worker[w].key[1]] IN
       \/ /\ old = {}
          /\ Done(w)
       \/ /\ old # {}
          /\ worker' = [worker EXCEPT ![w].pc = "stop", ![w].todo = old]
    /\ UNCHANGED <<outerVars, queueVars, sharedVars, starter>>

trackedDelete(w) ==
    /\ up /\ worker[w].pc = "forget"
    /\ tracked' = Delete(tracked, worker[w].key[1], {})
    /\ Done(w)
    /\ UNCHANGED <<outerVars, queueVars, mapVars, count, mapper, starter>>
-----------------------------------------------------------------------------
(* stopInformers.  Its caller goes on to forget the work when it is gone.  *)
stopReturns(w) ==
    \/ /\ worker[w].gone
       /\ worker' = [worker EXCEPT ![w].pc = "forget", ![w].todo = {}]
    \/ /\ ~worker[w].gone
       /\ Done(w)

(* One iteration up to informers.Get.  Iteration order is that of a slice  *)
(* filled from a Go map, or of the work's list: any order is possible.     *)
stopInformers(w, u) ==
    /\ up /\ worker[w].pc = "stop" /\ u \in worker[w].todo
    /\ \/ /\ ~mapper.ok
          /\ Panic("nilMapper")
          /\ UNCHANGED <<worker, leaked>>
       \* KindFor fails: the remaining objects are skipped.
       \/ /\ mapper.ok /\ KindOf[u] \notin mapper.kinds
          /\ stopReturns(w)
          /\ leaked' = leaked \cup worker[w].todo
          /\ UNCHANGED fault
       \/ /\ mapper.ok /\ KindOf[u] \in mapper.kinds
          /\ informers[KindOf[u]] = 0
          /\ worker' = [worker EXCEPT ![w].todo = @ \ {u}]
          /\ UNCHANGED <<fault, leaked>>
       \/ /\ mapper.ok /\ KindOf[u] \in mapper.kinds
          /\ informers[KindOf[u]] # 0
          /\ worker' = [worker EXCEPT ![w].pc = "delUID", ![w].cur = u,
                                      ![w].todo = @ \ {u}]
          /\ UNCHANGED <<fault, leaked>>
    /\ UNCHANGED <<clusterVars, queueVars, sharedVars, starter, restarts,
                   abandoned>>

stopDeleteUID(w) ==
    /\ up /\ worker[w].pc = "delUID"
    /\ count' = DeleteUID(count, KindOf[worker[w].cur], worker[w].cur)
    /\ Goto(w, "count")
    /\ UNCHANGED <<outerVars, queueVars, mapVars, tracked, mapper, starter>>

\* Mutant: off by one, the informer stops while one object is left.
OneLeft(k) == GetUIDCount(count, k) <= 1
NoneLeft(k) == GetUIDCount(count, k) = 0

stopGetUIDCount(w) ==
    /\ up /\ worker[w].pc = "count"
    /\ Goto(w, IF NoneLeft(KindOf[worker[w].cur]) THEN "close" ELSE "stop")
    /\ UNCHANGED <<outerVars, queueVars, sharedVars, starter>>

(* stopInformer: stoppers.Get and close.  A missing stopper is logged and  *)
(* then asserted to be a channel; a channel can be closed only once.       *)
stopInformer(w) ==
    /\ up /\ worker[w].pc = "close"
    /\ LET k == KindOf[worker[w].cur]
           i == stoppers[k]
       IN  \/ /\ i = 0
              /\ Panic("nilStopper")
              /\ UNCHANGED <<running, worker>>
           \/ /\ i # 0 /\ i \notin running[k]
              /\ Panic("closedStopper")
              /\ UNCHANGED <<running, worker>>
           \/ /\ i # 0 /\ i \in running[k]
              /\ running' = [running EXCEPT ![k] = @ \ {i}]
              /\ Goto(w, "delInformer")
              /\ UNCHANGED fault
    /\ UNCHANGED <<clusterVars, queueVars, informers, listers, stoppers, born,
                   memoVars, starter, restarts, abandoned, leaked>>

informersDelete(w) ==
    /\ up /\ worker[w].pc = "delInformer"
    /\ informers' = Delete(informers, KindOf[worker[w].cur], 0)
    /\ Goto(w, "delLister")
    /\ UNCHANGED <<outerVars, queueVars, listers, stoppers, running, born, memoVars,
                   starter>>

listersDelete(w) ==
    /\ up /\ worker[w].pc = "delLister"
    /\ listers' = Delete(listers, KindOf[worker[w].cur], 0)
    /\ Goto(w, "delStopper")
    /\ UNCHANGED <<outerVars, queueVars, informers, stoppers, running, born,
                   memoVars, starter>>

stoppersDelete(w) ==
    /\ up /\ worker[w].pc = "delStopper"
    /\ stoppers' = Delete(stoppers, KindOf[worker[w].cur], 0)
    /\ Goto(w, "stop")
    /\ UNCHANGED <<outerVars, queueVars, informers, listers, running, born,
                   memoVars, starter>>

(* What one discovery request returns; getRestMapper returns nil with an   *)
(* error, and the nil is stored all the same.                              *)
Discovered == {[ok |-> TRUE, kinds |-> served]}
              \cup (IF DiscoveryMayFail THEN {NoMapper} ELSE {})

(* The loop is over: discovery, then the assignment to a.restMapper.       *)
stopGetRestMapper(w) ==
    /\ up /\ worker[w].pc = "stop" /\ worker[w].todo = {}
    /\ \E m \in Discovered :
          worker' = [worker EXCEPT ![w].pc = "assign", ![w].snap = m]
    /\ UNCHANGED <<outerVars, queueVars, sharedVars, starter>>

stopSetRestMapper(w) ==
    /\ up /\ worker[w].pc = "assign"
    /\ mapper' = worker[w].snap
    /\ stopReturns(w)
    /\ UNCHANGED <<outerVars, queueVars, mapVars, tracked, count, starter>>
-----------------------------------------------------------------------------
(* startInformers, in a goroutine of its own.                              *)
startGetRestMapper(s) ==
    /\ up /\ starter[s].pc = "discover"
    /\ \E m \in Discovered :
          starter' = [starter EXCEPT ![s].pc = "assign", ![s].snap = m]
    /\ UNCHANGED <<outerVars, queueVars, sharedVars, worker>>

startSetRestMapper(s) ==
    /\ up /\ starter[s].pc = "assign"
    /\ mapper' = starter[s].snap
    /\ starter' = [starter EXCEPT ![s].pc = "loop"]
    /\ UNCHANGED <<outerVars, queueVars, mapVars, tracked, count, worker>>

(* One iteration up to AddUID.                                             *)
startInformers(s, u) ==
    /\ up /\ starter[s].pc = "loop" /\ u \in starter[s].todo
    /\ \/ /\ ~mapper.ok
          /\ Panic("nilMapper")
          /\ UNCHANGED <<starter, count, abandoned>>
       \* KindFor fails: return, with the remaining objects not counted.
       \/ /\ mapper.ok /\ KindOf[u] \notin mapper.kinds
          /\ starter' = [starter EXCEPT ![s] = IdleStarter]
          /\ abandoned' = abandoned \cup starter[s].todo
          /\ UNCHANGED <<count, fault>>
       \/ /\ mapper.ok /\ KindOf[u] \in mapper.kinds \cap Excluded
          /\ starter' = [starter EXCEPT ![s].todo = @ \ {u}]
          /\ UNCHANGED <<count, fault, abandoned>>
       \/ /\ mapper.ok /\ KindOf[u] \in mapper.kinds \ Excluded
          /\ count' = AddUID(count, KindOf[u], u)
          /\ starter' = [starter EXCEPT ![s].pc = "count", ![s].cur = u,
                                        ![s].todo = @ \ {u}]
          /\ UNCHANGED <<fault, abandoned>>
    /\ UNCHANGED <<clusterVars, queueVars, mapVars, tracked, mapper, worker,
                   restarts, leaked>>

(* GetUIDCount: only the first object of a kind starts the informer.       *)
\* Mutant: off by one, only the second object of a kind starts it.
IsSecond(k) == GetUIDCount(count, k) = 2
IsFirst(k) == GetUIDCount(count, k) = 1

startGetUIDCount(s) ==
    /\ up /\ starter[s].pc = "count"
    /\ \/ /\ IsFirst(KindOf[starter[s].cur])
          /\ born' = born + 1
          /\ starter' = [starter EXCEPT ![s].pc = "setInformer",
                                        ![s].id = born + 1]
       \/ /\ ~IsFirst(KindOf[starter[s].cur])
          /\ starter' = [starter EXCEPT ![s].pc = "loop"]
          /\ UNCHANGED born
    /\ UNCHANGED <<outerVars, queueVars, informers, listers, stoppers, running,
                   memoVars, worker>>

informersSet(s) ==
    /\ up /\ starter[s].pc = "setInformer"
    /\ informers' = Set(informers, KindOf[starter[s].cur], starter[s].id)
    /\ starter' = [starter EXCEPT ![s].pc = "setLister"]
    /\ UNCHANGED <<outerVars, queueVars, listers, stoppers, running, born, memoVars,
                   worker>>

listersSet(s) ==
    /\ up /\ starter[s].pc = "setLister"
    /\ listers' = Set(listers, KindOf[starter[s].cur], starter[s].id)
    /\ starter' = [starter EXCEPT ![s].pc = "setStopper"]
    /\ UNCHANGED <<outerVars, queueVars, informers, stoppers, running, born,
                   memoVars, worker>>

(* stoppers.Set and `go informer.Run(stopper)`.                            *)
stoppersSet(s) ==
    /\ up /\ starter[s].pc = "setStopper"
    /\ LET k == KindOf[starter[s].cur] IN
       /\ stoppers' = Set(stoppers, k, starter[s].id)
       /\ running' = [running EXCEPT ![k] = @ \cup {starter[s].id}]
    /\ starter' = [starter EXCEPT ![s].pc = "loop"]
    /\ UNCHANGED <<outerVars, queueVars, informers, listers, born, memoVars,
                   worker>>

startReturns(s) ==
    /\ up /\ starter[s].pc = "loop" /\ starter[s].todo = {}
    /\ starter' = [starter EXCEPT ![s] = IdleStarter]
    /\ UNCHANGED <<outerVars, queueVars, sharedVars, worker>>
-----------------------------------------------------------------------------
(* NewAgent and run: empty maps, a fresh restMapper, and an informer on    *)
(* AppliedManifestWorks whose first list is delivered as events.           *)
Init ==
    /\ present = {}
    /\ applied = [n \in Works |-> {}]
    /\ served = InitServed
    /\ changes = 0
    /\ deleted = {}
    /\ events = [n \in Works |-> 0]
    /\ dirty = {} /\ waiting = {} /\ ptrs = 0
    /\ tracked = [n \in Works |-> {}]
    /\ count = [k \in Kinds |-> {}]
    /\ informers = [k \in Kinds |-> 0]
    /\ listers = [k \in Kinds |-> 0]
    /\ stoppers = [k \in Kinds |-> 0]
    /\ running = [k \in Kinds |-> {}]
    /\ born = 0
    /\ mapper = [ok |-> TRUE, kinds |-> served]
    /\ worker = [w \in Workers |-> IdleWorker]
    /\ starter = [s \in Starters |-> IdleStarter]
    /\ fault = "none"
    /\ restarts = 0
    /\ abandoned = {} /\ leaked = {}

(* The process ends in code that is not modelled here (another goroutine's *)
(* panic), or is evicted.                                                  *)
Crash ==
    /\ up /\ restarts < MaxRestarts
    /\ Panic("crash")
    /\ UNCHANGED <<clusterVars, queueVars, sharedVars, worker, starter, restarts,
                   abandoned, leaked>>

Restart ==
    /\ ~up /\ restarts < MaxRestarts
    /\ events' = [n \in Works |-> IF n \in present THEN 1 ELSE 0]
    /\ dirty' = {} /\ waiting' = {} /\ ptrs' = 0
    /\ tracked' = [n \in Works |-> {}]
    /\ count' = [k \in Kinds |-> {}]
    /\ informers' = [k \in Kinds |-> 0]
    /\ listers' = [k \in Kinds |-> 0]
    /\ stoppers' = [k \in Kinds |-> 0]
    /\ running' = [k \in Kinds |-> {}]
    /\ born' = 0
    /\ mapper' = [ok |-> TRUE, kinds |-> served]
    /\ worker' = [w \in Workers |-> IdleWorker]
    /\ starter' = [s \in Starters |-> IdleStarter]
    /\ fault' = "none"
    /\ restarts' = restarts + 1
    /\ deleted' = {}
    /\ abandoned' = {} /\ leaked' = {}
    /\ UNCHANGED <<present, applied, served, changes>>

Environment ==
    \/ \E n \in Works : DeleteWork(n) \/ \E S \in SUBSET MayList[n] : ApplyWork(n, S)
    \/ \E k \in Kinds : ChangeCRD(k)

WorkerStep(w) ==
    \/ \E k \in dirty : reconcile(w, k)
    \/ trackedGet(w)
    \/ \E s \in Starters : trackedSet(w, s)
    \/ trackedGetGone(w)
    \/ \E u \in worker[w].todo : stopInformers(w, u)
    \/ stopDeleteUID(w)
    \/ stopGetUIDCount(w)
    \/ stopInformer(w)
    \/ informersDelete(w)
    \/ listersDelete(w)
    \/ stoppersDelete(w)
    \/ stopGetRestMapper(w)
    \/ stopSetRestMapper(w)
    \/ trackedDelete(w)

StarterStep(s) ==
    \/ startGetRestMapper(s)
    \/ startSetRestMapper(s)
    \/ \E u \in starter[s].todo : startInformers(s, u)
    \/ startGetUIDCount(s)
    \/ informersSet(s)
    \/ listersSet(s)
    \/ stoppersSet(s)
    \/ startReturns(s)

Next ==
    \/ Environment
    \/ \E n \in Works : enqueueObject(n)
    \/ \E k \in waiting : AddRateLimitedFires(k)
    \/ \E w \in Workers : WorkerStep(w)
    \/ \E s \in Starters : StarterStep(s)
    \/ Crash
    \/ Restart

Spec == Init /\ [][Next]_vars

(* Every goroutine keeps running, every queued event is handled and the    *)
(* rate limiter's delays end.  The work queue is first in, first out: no   *)
(* key waits for ever while others are handed out again and again.         *)
Fairness ==
    /\ \A n \in Works : WF_vars(enqueueObject(n))
    /\ WF_vars(\E k \in waiting : AddRateLimitedFires(k))
    /\ \A k \in Works \X (0 .. MaxChanges) :
          SF_vars(\E w \in Workers : reconcile(w, k))
    /\ \A w \in Workers : WF_vars(WorkerStep(w))
    /\ \A s \in Starters : WF_vars(StarterStep(s))

FairSpec == Spec /\ Fairness
-----------------------------------------------------------------------------
(* Properties.                                                             *)

Sole(u) == \A m, n \in Works : u \in MayList[m] \cap MayList[n] => m = n

(* No interleaving of workers, startInformers goroutines, discovery        *)
(* failures and restarts makes the agent lose the reference of a listed    *)
(* object: once a work that has not been deleted is tracked, each object   *)
(* it still lists is in objectsCount or a startInformers goroutine is yet  *)
(* to add it.  Two things are excepted: kinds without status, and objects  *)
(* dropped because the restMapper did not know a kind.                     *)
ListedObjectsCounted ==
    \A n \in Works \ deleted : \A u \in tracked[n] \cap applied[n] :
        Sole(u) /\ KindOf[u] \notin Excluded /\ u \notin abandoned =>
            \/ u \in count[KindOf[u]]
            \/ \E s \in Starters : u \in starter[s].todo

(* A closed stop channel stays in the stoppers map only while some worker  *)
(* is still inside stopInformer for that kind: once the stop is over, no   *)
(* later stop can close the same channel again.                            *)
ClosedStopperIsBeingRemoved ==
    \A k \in Kinds : stoppers[k] # 0 /\ stoppers[k] \notin running[k] =>
        \E w \in Workers : worker[w].pc \in Closing /\ KindOf[worker[w].cur] = k

(* No change of a work is lost: when the agent is quiet, what it tracks    *)
(* for a work that exists and has not been deleted before is what the work *)
(* lists now, however events, retries and two workers interleaved.         *)
ListedWorksTracked ==
    up /\ Quiet => \A n \in present \ deleted :
        applied[n] # {} => tracked[n] = applied[n]

TrackedOf(k) == {u \in UNION {tracked[n] : n \in Works} : KindOf[u] = k}

(* The restMapper knew the kind whenever it was asked for an object of k.  *)
Mapped(k) == \A u \in abandoned \cup leaked : KindOf[u] # k

(* When the agent is quiet, a kind with tracked objects has exactly one    *)
(* running informer, the one all three maps name, and a kind without has   *)
(* none and no map entry ("a singleton informer is started for each GVR",  *)
(* pkg/agent/agent.go:46), unless the restMapper did not know the kind.    *)
SingletonInformer ==
    up /\ Quiet => \A k \in Kinds \ Excluded : Mapped(k) =>
        IF TrackedOf(k) = {}
        THEN running[k] = {} /\ informers[k] = 0 /\ listers[k] = 0 /\ stoppers[k] = 0
        ELSE /\ informers[k] = listers[k] /\ listers[k] = stoppers[k]
             /\ running[k] = {informers[k]}

(* No reference is leaked or lost for good: when the agent is quiet, the   *)
(* references it counts for a kind are those of the objects it tracks, but *)
(* for the ones startInformers and stopInformers skip when they return on  *)
(* the first kind the restMapper does not know.                            *)
OnlyTrackedCounted ==
    up /\ Quiet => \A k \in Kinds \ Excluded :
        /\ count[k] \subseteq TrackedOf(k) \cup leaked
        /\ TrackedOf(k) \subseteq count[k] \cup abandoned

(* Stopping an informer never ends the process: stopInformer always finds  *)
(* a stop channel that is still open (it only logs a missing one,          *)
(* pkg/agent/informers.go:138).                                            *)
StopNeverPanics == fault \notin {"nilStopper", "closedStopper"}

(* No informer is taken away from an object that needs it: while the       *)
(* process lives, the lister of a kind is not deleted as long as some work *)
(* lists an object of the kind ("All instances deployed by hub removed,    *)
(* stopping informer", pkg/agent/informers.go:135), unless the restMapper  *)
(* did not know the kind.                                                  *)
NeededInformerKept == [][\A n \in Works : \A u \in applied[n] :
    up /\ KindOf[u] \notin Excluded /\ Mapped(KindOf[u]) /\ listers[KindOf[u]] # 0 =>
        listers'[KindOf[u]] # 0]_vars

(* Under fair scheduling an object that is listed is, sooner or later,     *)
(* watched by an informer of its kind, unless its work drops it first or   *)
(* the restMapper did not know its kind.                                   *)
ListedObjectsWatched ==
    \A n \in Works : \A u \in MayList[n] :
        KindOf[u] \notin Excluded =>
            (u \in applied[n] ~> \/ u \notin applied[n] \/ ~Mapped(KindOf[u])
                                \/ running[KindOf[u]] # {})
=============================================================================
