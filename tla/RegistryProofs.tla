--------------------------- MODULE RegistryProofs ---------------------------
(***************************************************************************)
(* Proofs about InformerRegistry, for all works, objects, kinds, workers   *)
(* and goroutines.  Inv is inductive: it says which worker may hold what,  *)
(* and which change or object is still on its way.  A step of a goroutine  *)
(* inside startInformers or stopInformers is first reduced to its effect   *)
(* (StartEffect, StopEffect), which is then shown to keep Inv.             *)
(***************************************************************************)
EXTENDS InformerRegistry, TLAPS

Busy(w)     == worker[w].pc # "idle"
Of(w)       == worker[w].key[1]
Deciding(w) == worker[w].pc \in {"get", "set"}
Stopping(w) == Busy(w) /\ ~Deciding(w)
\* Inside the body of stopInformers' loop.
InLoop      == Closing \cup {"delUID", "count", "close"}

(* A busy worker works on objects its work may list; it forgets a work     *)
(* only after that work was deleted; inside the loop body of stopInformers *)
(* it has a current object.                                                *)
WorkerOK(w) ==
    /\ worker[w].key \in Key
    /\ worker[w].info \cup worker[w].todo \subseteq MayList[Of(w)]
    /\ worker[w].cur \in MayList[Of(w)] \cup {None}
    /\ worker[w].gone => Of(w) \in deleted /\ Stopping(w)
    /\ worker[w].pc \in {"untrack", "forget"} => worker[w].gone
    /\ Deciding(w) => worker[w].cur = None
    /\ worker[w].pc \in InLoop => worker[w].cur \in UIDs

(* No two workers hold the same key.                                       *)
WorkersOK ==
    /\ \A w \in Workers : Busy(w) => WorkerOK(w)
    /\ \A v, w \in Workers :
          Busy(v) /\ Busy(w) /\ worker[v].key = worker[w].key => v = w

(* A key with a DeletedObject pointer belongs to a work that was deleted.  *)
QueueOK ==
    /\ \A k \in dirty \cup waiting : k[2] # 0 => k[1] \in deleted
    /\ \A w \in Workers : Busy(w) /\ worker[w].key[2] # 0 => Of(w) \in deleted
    /\ \A n \in Works \ deleted : events[n] > 0 => n \in present

(* What a worker still has to compare or to stop, against what is tracked. *)
TrackedOK ==
    /\ \A n \in Works : tracked[n] \cup applied[n] \subseteq MayList[n]
    /\ \A w \in Workers : Busy(w) /\ Of(w) \notin deleted =>
          /\ worker[w].pc = "set" => worker[w].todo = tracked[Of(w)]
          /\ Stopping(w) =>
                (worker[w].todo \cup {worker[w].cur}) \cap tracked[Of(w)] = {}

Counted(u) == \/ u \in count[KindOf[u]] \/ KindOf[u] \in Excluded \/ u \in abandoned
              \/ \E s \in Starters : u \in starter[s].todo

(* ListedObjectsCounted for all that is tracked, listed now or not.        *)
CountedOK ==
    /\ \A s \in Starters : starter[s].pc = "idle" => starter[s].todo = {}
    /\ \A n \in Works \ deleted : \A u \in tracked[n] : Sole(u) => Counted(u)

Pending(n) == events[n] > 0 \/ <<n, 0>> \in dirty

(* Every worker that decides on the work has its present list, and there   *)
(* is one or that list is tracked.                                         *)
Settled(n) ==
    /\ \A w \in Workers : Deciding(w) /\ Of(w) = n => worker[w].info = applied[n]
    /\ (\E w \in Workers : Deciding(w) /\ Of(w) = n) \/ tracked[n] = applied[n]

(* No change is lost: a work that lists something is settled, unless a     *)
(* change of it is still to be looked at.                                  *)
PendingOK == \A n \in present \ deleted : applied[n] = {} \/ Pending(n) \/ Settled(n)

Inv == /\ TypeOK /\ WorkersOK /\ QueueOK /\ TrackedOK /\ CountedOK /\ PendingOK
       /\ ClosedStopperIsBeingRemoved

(* NewAgent leaves the agent in a state of the invariant.                  *)
LEMMA InitInv == Init => Inv
<1> SUFFICES ASSUME Init PROVE Inv
  OBVIOUS
<1> USE ConstantsAssumption
<1>1. TypeOK
  BY DEF Init, TypeOK, Mapper, WorkerState, StarterState, WorkerPC, StarterPC,
         IdleWorker, IdleStarter, NoMapper
<1>2. WorkersOK /\ QueueOK
  BY DEF Init, WorkersOK, QueueOK, Busy, IdleWorker
<1>3. TrackedOK /\ CountedOK /\ PendingOK
  BY DEF Init, TrackedOK, CountedOK, PendingOK, Busy, IdleWorker, IdleStarter
<1>4. ClosedStopperIsBeingRemoved
  BY DEF Init, ClosedStopperIsBeingRemoved
<1> QED
  BY <1>1, <1>2, <1>3, <1>4 DEF Inv

(* The records of an idle worker and an idle goroutine have their types.   *)
LEMMA IdleTypes == IdleWorker \in WorkerState /\ IdleStarter \in StarterState
  BY ConstantsAssumption DEF IdleWorker, IdleStarter, WorkerState, StarterState,
     WorkerPC, StarterPC, NoMapper, Mapper

(* What a discovery request returns is a restMapper.                       *)
LEMMA DiscoveredType == ASSUME TypeOK PROVE Discovered \subseteq Mapper
<1>1. NoMapper \in Mapper
  BY DEF Mapper, NoMapper
<1>2. [ok |-> TRUE, kinds |-> served] \in Mapper
  BY DEF TypeOK, Mapper
<1> QED
  BY <1>1, <1>2 DEF Discovered

(* Types after a change of the cluster or a step of the work queue.        *)
LEMMA ClusterType ==
    ASSUME TypeOK, \/ Environment \/ \E n \in Works : enqueueObject(n)
                   \/ \E k \in waiting : AddRateLimitedFires(k)
    PROVE  TypeOK'
<1> USE ConstantsAssumption DEF TypeOK
<1>1. ASSUME NEW n \in Works, NEW S \in SUBSET MayList[n], ApplyWork(n, S)
      PROVE  TypeOK'
  BY <1>1 DEF ApplyWork, sharedVars, mapVars, memoVars, miscVars
<1>2. ASSUME NEW n \in Works, DeleteWork(n)
      PROVE  TypeOK'
  BY <1>2 DEF DeleteWork, sharedVars, mapVars, memoVars, miscVars
<1>3. ASSUME NEW k \in Kinds, ChangeCRD(k)
      PROVE  TypeOK'
  BY <1>3 DEF ChangeCRD, queueVars, sharedVars, mapVars, memoVars, miscVars
<1>4. ASSUME NEW n \in Works, enqueueObject(n)
      PROVE  TypeOK'
  BY <1>4 DEF enqueueObject, Key, sharedVars, mapVars, memoVars, outerVars, miscVars, clusterVars
<1>5. ASSUME NEW k \in waiting, AddRateLimitedFires(k)
      PROVE  TypeOK'
  BY <1>5 DEF AddRateLimitedFires, sharedVars, mapVars, memoVars, outerVars, miscVars, clusterVars
<1> QED
  BY <1>1, <1>2, <1>3, <1>4, <1>5 DEF Environment

(* Types after a restart.                                                  *)
LEMMA RestartType == ASSUME TypeOK, Restart PROVE TypeOK'
<1>1. worker' \in [Workers -> WorkerState] /\ starter' \in [Starters -> StarterState]
  BY IdleTypes DEF Restart
<1>2. mapper' \in Mapper
  BY DEF Restart, TypeOK, Mapper
<1> QED
  BY <1>1, <1>2 DEF Restart, TypeOK

(* Types after a step of startInformers.                                   *)
LEMMA StarterType ==
    ASSUME TypeOK, NEW s \in Starters, StarterStep(s)
    PROVE  TypeOK'
<1> USE DEF TypeOK
<1>0. starter[s] \in StarterState
  OBVIOUS
<1>1. CASE startGetRestMapper(s)
  <2>1. PICK m \in Mapper : starter' = [starter EXCEPT ![s].pc = "assign", ![s].snap = m]
    BY <1>1, DiscoveredType DEF startGetRestMapper
  <2>2. [starter[s] EXCEPT !.pc = "assign", !.snap = m] \in StarterState
    BY <1>0 DEF StarterState, StarterPC
  <2>3. starter' \in [Starters -> StarterState]
    BY <2>1, <2>2
  <2> QED
    BY <1>1, <2>3 DEF startGetRestMapper, outerVars, clusterVars, miscVars, queueVars,
       sharedVars, mapVars, memoVars
<1>2. CASE startSetRestMapper(s)
  <2>1. starter' \in [Starters -> StarterState] /\ mapper' \in Mapper
    BY <1>2 DEF startSetRestMapper, StarterState, StarterPC
  <2> QED
    BY <1>2, <2>1 DEF startSetRestMapper, outerVars, clusterVars, miscVars, queueVars, mapVars
<1>3. ASSUME NEW u \in starter[s].todo, startInformers(s, u)
      PROVE  TypeOK'
  <2>1. u \in UIDs /\ starter[s].todo \subseteq UIDs
    BY <1>0 DEF StarterState
  <2>2. starter' \in [Starters -> StarterState]
    <3>1. CASE starter' = [starter EXCEPT ![s] = IdleStarter]
      BY <3>1, IdleTypes
    <3>2. CASE starter' = [starter EXCEPT ![s].todo = @ \ {u}]
      BY <1>0, <2>1, <3>2 DEF StarterState
    <3>3. CASE starter' = [starter EXCEPT ![s].pc = "count", ![s].cur = u, ![s].todo = @ \ {u}]
      BY <1>0, <2>1, <3>3 DEF StarterState, StarterPC
    <3> QED
      BY <1>3, <3>1, <3>2, <3>3 DEF startInformers
  <2>3. count' \in [Kinds -> SUBSET UIDs]
    BY <1>3, <2>1 DEF startInformers, AddUID
  <2>4. fault' \in {"none", "nilMapper", "nilStopper", "closedStopper", "crash"} /\ abandoned' \subseteq UIDs
    BY <1>3, <2>1 DEF startInformers, Panic
  <2> QED
    BY <1>3, <2>2, <2>3, <2>4 DEF startInformers, clusterVars, queueVars, mapVars
<1>4. CASE startGetUIDCount(s)
  <2>1. starter' \in [Starters -> StarterState] /\ born' \in Nat
    <3>1. CASE /\ born' = born + 1
               /\ starter' = [starter EXCEPT ![s].pc = "setInformer", ![s].id = born + 1]
      <4>1. born + 1 \in Nat
        OBVIOUS
      <4> QED
        BY <1>0, <3>1, <4>1 DEF StarterState, StarterPC
    <3>2. CASE starter' = [starter EXCEPT ![s].pc = "loop"] /\ born' = born
      BY <1>0, <3>2 DEF StarterState, StarterPC
    <3> QED
      BY <1>4, <3>1, <3>2 DEF startGetUIDCount
  <2> QED
    BY <1>4, <2>1 DEF startGetUIDCount, outerVars, clusterVars, miscVars, queueVars, memoVars
<1>5. CASE informersSet(s) \/ listersSet(s) \/ stoppersSet(s)
  <2>1. ASSUME NEW pc \in StarterPC, starter' = [starter EXCEPT ![s].pc = pc]
        PROVE  starter' \in [Starters -> StarterState]
    BY <1>0, <2>1 DEF StarterState
  <2>2. starter' \in [Starters -> StarterState] /\ starter[s].id \in Nat
    BY <1>0, <1>5, <2>1 DEF informersSet, listersSet, stoppersSet, StarterState, StarterPC
  <2> QED
    BY <1>5, <2>2 DEF informersSet, listersSet, stoppersSet, Set, outerVars, clusterVars,
       miscVars, queueVars, memoVars
<1>6. CASE startReturns(s)
  BY <1>6, IdleTypes DEF startReturns, outerVars, clusterVars, miscVars, queueVars,
     sharedVars, mapVars, memoVars
<1> QED
  BY <1>1, <1>2, <1>3, <1>4, <1>5, <1>6 DEF StarterStep

(* Types after a step of a worker.                                         *)
LEMMA WorkerType ==
    ASSUME TypeOK, WorkersOK, NEW w \in Workers, WorkerStep(w)
    PROVE  TypeOK'
<1> USE ConstantsAssumption DEF TypeOK
<1> DEFINE n == Of(w)
<1>0. /\ worker[w] \in WorkerState
      /\ Busy(w) => worker[w].key \in Key /\ n \in Works /\ tracked[n] \subseteq UIDs
  BY DEF WorkersOK, WorkerOK, Of, Key
<1>1. ASSUME NEW k \in dirty, reconcile(w, k)
      PROVE  TypeOK'
  <2>1. k \in Key /\ applied[k[1]] \subseteq UIDs
    BY DEF Key
  <2> DEFINE live == [IdleWorker EXCEPT !.pc = "get", !.key = k, !.info = applied[k[1]]]
             gone == [IdleWorker EXCEPT !.pc = "untrack", !.key = k, !.gone = TRUE]
  <2>2. live \in WorkerState /\ gone \in WorkerState
    BY <2>1, IdleTypes DEF WorkerState, WorkerPC
  <2>3. \/ worker' = [worker EXCEPT ![w] = live]
        \/ worker' = [worker EXCEPT ![w] = gone]
        \/ worker' = worker
    BY <1>1 DEF reconcile
  <2> HIDE DEF live, gone
  <2>4. worker' \in [Workers -> WorkerState]
    BY <2>2, <2>3
  <2> QED
    BY <1>1, <2>1, <2>4 DEF reconcile, outerVars, clusterVars, miscVars, sharedVars, mapVars, memoVars
<1>2. ASSUME NEW pc \in WorkerPC, Goto(w, pc)
      PROVE  worker' \in [Workers -> WorkerState]
  BY <1>0, <1>2 DEF Goto, WorkerState
<1>3. ASSUME NEW pc \in WorkerPC, NEW t \in SUBSET UIDs,
             worker' = [worker EXCEPT ![w].pc = pc, ![w].todo = t]
      PROVE  worker' \in [Workers -> WorkerState]
  BY <1>0, <1>3 DEF WorkerState
<1>4. ASSUME Done(w)
      PROVE  worker' \in [Workers -> WorkerState]
  BY <1>4, IdleTypes DEF Done
<1>5. ASSUME stopReturns(w)
      PROVE  worker' \in [Workers -> WorkerState]
  <2>1. "forget" \in WorkerPC /\ {} \in SUBSET UIDs
    BY DEF WorkerPC
  <2> QED
    BY <1>3, <1>4, <1>5, <2>1 DEF stopReturns
<1>6. CASE trackedGet(w)
  <2>1. Busy(w) /\ "set" \in WorkerPC
    BY <1>6 DEF trackedGet, Busy, WorkerPC
  <2>2. worker' \in [Workers -> WorkerState]
    BY <1>0, <1>3, <1>4, <1>6, <2>1 DEF trackedGet, Of
  <2> QED
    BY <1>6, <2>2 DEF trackedGet, outerVars, clusterVars, miscVars, queueVars,
       sharedVars, mapVars, memoVars
<1>7. ASSUME NEW s \in Starters, trackedSet(w, s)
      PROVE  TypeOK'
  <2> DEFINE old == worker[w].todo
             info == worker[w].info
             new == [IdleStarter EXCEPT !.pc = "discover", !.todo = Added(old, info)]
  <2>1. /\ old \subseteq UIDs /\ info \subseteq UIDs /\ "stop" \in WorkerPC
        /\ Removed(old, info) \in SUBSET UIDs /\ Added(old, info) \subseteq UIDs
    BY <1>0 DEF WorkerState, WorkerPC, Added, Removed
  <2>2. new \in StarterState
    BY <2>1, IdleTypes DEF StarterState, StarterPC
  <2>3. starter' = [starter EXCEPT ![s] = new]
    BY <1>7 DEF trackedSet
  <2>4. starter' \in [Starters -> StarterState]
    <3> HIDE DEF new
    <3> QED
      BY <2>2, <2>3
  <2>5. worker' \in [Workers -> WorkerState]
    BY <1>3, <1>4, <1>7, <2>1 DEF trackedSet
  <2>6. tracked' \in [Works -> SUBSET UIDs]
    BY <1>7, <2>1 DEF trackedSet, Set
  <2> QED
    BY <1>7, <2>4, <2>5, <2>6 DEF trackedSet, outerVars, clusterVars, miscVars, queueVars, mapVars
<1>8. CASE trackedGetGone(w)
  <2>1. Busy(w) /\ "stop" \in WorkerPC
    BY <1>8 DEF trackedGetGone, Busy, WorkerPC
  <2>2. worker' \in [Workers -> WorkerState]
    BY <1>0, <1>3, <1>4, <1>8, <2>1 DEF trackedGetGone, Of
  <2> QED
    BY <1>8, <2>2 DEF trackedGetGone, outerVars, clusterVars, miscVars, queueVars,
       sharedVars, mapVars, memoVars
<1>9. CASE trackedDelete(w)
  BY <1>4, <1>9 DEF trackedDelete, Delete, outerVars, clusterVars, miscVars, queueVars, mapVars
<1>10. ASSUME NEW u \in worker[w].todo, stopInformers(w, u)
       PROVE  TypeOK'
  <2>1. u \in UIDs /\ worker[w].todo \ {u} \in SUBSET UIDs
    BY <1>0 DEF WorkerState
  <2>2. worker' \in [Workers -> WorkerState]
    <3>1. CASE worker' = [worker EXCEPT ![w].todo = @ \ {u}]
      BY <1>0, <2>1, <3>1 DEF WorkerState
    <3>2. CASE worker' = [worker EXCEPT ![w].pc = "delUID", ![w].cur = u, ![w].todo = @ \ {u}]
      BY <1>0, <2>1, <3>2 DEF WorkerState, WorkerPC
    <3> QED
      BY <1>5, <1>10, <3>1, <3>2 DEF stopInformers
  <2>3. fault' \in {"none", "nilMapper", "nilStopper", "closedStopper", "crash"}
    BY <1>10 DEF stopInformers, Panic
  <2>4. leaked' \subseteq UIDs
    BY <1>0, <1>10 DEF stopInformers, WorkerState
  <2> QED
    BY <1>10, <2>2, <2>3, <2>4 DEF stopInformers, clusterVars, queueVars, sharedVars, mapVars, memoVars
<1>11. CASE stopDeleteUID(w) \/ stopGetUIDCount(w)
  <2>1. worker' \in [Workers -> WorkerState]
    BY <1>2, <1>11 DEF stopDeleteUID, stopGetUIDCount, WorkerPC
  <2> QED
    BY <1>11, <2>1 DEF stopDeleteUID, stopGetUIDCount, DeleteUID, outerVars, clusterVars,
       miscVars, queueVars, sharedVars, mapVars, memoVars
<1>12. CASE stopInformer(w)
  <2>1. worker' \in [Workers -> WorkerState]
    BY <1>2, <1>12 DEF stopInformer, WorkerPC
  <2>2. /\ running' \in [Kinds -> SUBSET Nat]
        /\ fault' \in {"none", "nilMapper", "nilStopper", "closedStopper", "crash"}
    BY <1>12 DEF stopInformer, Panic
  <2> QED
    BY <1>12, <2>1, <2>2 DEF stopInformer, clusterVars, queueVars, memoVars
<1>13. CASE informersDelete(w) \/ listersDelete(w) \/ stoppersDelete(w)
  <2>1. worker' \in [Workers -> WorkerState]
    BY <1>2, <1>13 DEF informersDelete, listersDelete, stoppersDelete, WorkerPC
  <2> QED
    BY <1>13, <2>1 DEF informersDelete, listersDelete, stoppersDelete, Delete, outerVars,
       clusterVars, miscVars, queueVars, memoVars
<1>14. CASE stopGetRestMapper(w)
  <2>1. PICK m \in Mapper : worker' = [worker EXCEPT ![w].pc = "assign", ![w].snap = m]
    BY <1>14, DiscoveredType DEF stopGetRestMapper
  <2>2. worker' \in [Workers -> WorkerState]
    BY <1>0, <2>1 DEF WorkerState, WorkerPC
  <2> QED
    BY <1>14, <2>2 DEF stopGetRestMapper, outerVars, clusterVars, miscVars, queueVars,
       sharedVars, mapVars, memoVars
<1>15. CASE stopSetRestMapper(w)
  <2>1. mapper' \in Mapper
    BY <1>0, <1>15 DEF stopSetRestMapper, WorkerState
  <2> QED
    BY <1>5, <1>15, <2>1 DEF stopSetRestMapper, outerVars, clusterVars, miscVars, queueVars, mapVars
<1> QED
  BY <1>1, <1>6, <1>7, <1>8, <1>9, <1>10, <1>11, <1>12, <1>13, <1>14, <1>15 DEF WorkerStep

(* Changes of the cluster, events and delays keep the invariant.           *)
LEMMA ClusterInv ==
    ASSUME Inv, \/ Environment \/ \E n \in Works : enqueueObject(n)
                \/ \E k \in waiting : AddRateLimitedFires(k)
    PROVE  Inv'
<1> USE ConstantsAssumption
<1>0. /\ TypeOK /\ WorkersOK /\ QueueOK /\ TrackedOK /\ CountedOK /\ PendingOK
      /\ ClosedStopperIsBeingRemoved
      /\ TypeOK'
  BY ClusterType DEF Inv
<1>1. /\ UNCHANGED <<worker, starter, tracked, count, abandoned, stoppers, running>>
      /\ deleted \subseteq deleted'
  BY DEF Environment, ApplyWork, DeleteWork, ChangeCRD, enqueueObject, AddRateLimitedFires,
         outerVars, clusterVars, miscVars, sharedVars, mapVars, memoVars
<1>2. WorkersOK'
  BY <1>0, <1>1 DEF WorkersOK, WorkerOK, Busy, Of, Deciding, Stopping
<1>3. CountedOK' /\ ClosedStopperIsBeingRemoved'
  BY <1>0, <1>1 DEF CountedOK, Counted, ClosedStopperIsBeingRemoved
<1>4. ASSUME NEW m \in Works, applied'[m] = applied[m], Settled(m)
       PROVE  Settled(m)'
  BY <1>1, <1>4 DEF Settled, Deciding, Of
<1>5. ASSUME NEW n \in Works, NEW S \in SUBSET MayList[n], ApplyWork(n, S)
      PROVE  QueueOK' /\ TrackedOK' /\ PendingOK'
  <2> USE <1>0, <1>1, <1>5 DEF ApplyWork, TypeOK
  <2>1. QueueOK'
    BY DEF QueueOK, Busy, Of
  <2>2. TrackedOK'
    BY DEF TrackedOK, Busy, Of, Stopping, Deciding
  <2>3. PendingOK'
    <3> SUFFICES ASSUME NEW m \in (present \ deleted)'
                 PROVE  (applied[m] = {} \/ Pending(m) \/ Settled(m))'
      BY DEF PendingOK
    <3>1. CASE m = n
      BY <3>1 DEF Pending
    <3>2. CASE m # n
      BY <1>4, <3>2 DEF PendingOK, Pending
    <3> QED
      BY <3>1, <3>2
  <2> QED
    BY <2>1, <2>2, <2>3
<1>6. ASSUME NEW n \in Works, DeleteWork(n)
      PROVE  QueueOK' /\ TrackedOK' /\ PendingOK'
  <2> USE <1>0, <1>1, <1>6 DEF DeleteWork, TypeOK
  <2>1. QueueOK'
    BY DEF QueueOK, Busy, Of
  <2>2. TrackedOK'
    BY DEF TrackedOK, Busy, Of, Stopping, Deciding
  <2>3. PendingOK'
    <3> SUFFICES ASSUME NEW m \in (present \ deleted)'
                 PROVE  (applied[m] = {} \/ Pending(m) \/ Settled(m))'
      BY DEF PendingOK
    <3>1. CASE m = n
      BY <3>1 DEF Pending
    <3>2. CASE m # n
      BY <1>4, <3>2 DEF PendingOK, Pending
    <3> QED
      BY <3>1, <3>2
  <2> QED
    BY <2>1, <2>2, <2>3
<1>7. ASSUME NEW k \in Kinds, ChangeCRD(k)
      PROVE  QueueOK' /\ TrackedOK' /\ PendingOK'
  BY <1>0, <1>1, <1>7 DEF ChangeCRD, queueVars, QueueOK, TrackedOK, PendingOK, Pending,
     Settled, Busy, Of, Stopping, Deciding
<1>8. ASSUME NEW n \in Works, enqueueObject(n)
      PROVE  QueueOK' /\ TrackedOK' /\ PendingOK'
  <2> USE <1>0, <1>1, <1>8 DEF enqueueObject, TypeOK, outerVars, clusterVars
  <2>1. QueueOK'
    BY DEF QueueOK, Busy, Of
  <2>2. TrackedOK'
    BY DEF TrackedOK, Busy, Of, Stopping, Deciding
  <2>3. PendingOK'
    <3> SUFFICES ASSUME NEW m \in (present \ deleted)'
                 PROVE  (applied[m] = {} \/ Pending(m) \/ Settled(m))'
      BY DEF PendingOK
    <3>1. CASE m = n
      BY <3>1, <1>4 DEF Pending
    <3>2. CASE m # n
      BY <1>4, <3>2 DEF PendingOK, Pending
    <3> QED
      BY <3>1, <3>2
  <2> QED
    BY <2>1, <2>2, <2>3
<1>9. ASSUME NEW k \in waiting, AddRateLimitedFires(k)
      PROVE  QueueOK' /\ TrackedOK' /\ PendingOK'
  <2> USE <1>0, <1>1, <1>9 DEF AddRateLimitedFires, TypeOK, outerVars, clusterVars
  <2>1. QueueOK'
    BY DEF QueueOK, Busy, Of
  <2>2. TrackedOK'
    BY DEF TrackedOK, Busy, Of, Stopping, Deciding
  <2>3. /\ UNCHANGED <<present, deleted, applied, events>>
        /\ dirty \subseteq dirty'
    OBVIOUS
  <2>4. PendingOK'
    <3> SUFFICES ASSUME NEW m \in present \ deleted
                 PROVE  (applied[m] = {} \/ Pending(m) \/ Settled(m))'
      BY <2>3 DEF PendingOK
    <3>1. m \in Works
      OBVIOUS
    <3> QED
      BY <1>4, <2>3, <3>1 DEF PendingOK, Pending
  <2> QED
    BY <2>1, <2>2, <2>4
<1>10. QueueOK' /\ TrackedOK' /\ PendingOK'
  BY <1>5, <1>6, <1>7, <1>8, <1>9 DEF Environment
<1> QED
  BY <1>0, <1>2, <1>3, <1>10 DEF Inv

(* A restart keeps the invariant.                                          *)
LEMMA RestartInv == ASSUME Inv, Restart PROVE Inv'
<1>1. TypeOK /\ TypeOK' /\ TrackedOK
  BY RestartType DEF Inv
<1>2. /\ \A w \in Workers : worker'[w].pc = "idle"
      /\ \A s \in Starters : starter'[s].pc = "idle" /\ starter'[s].todo = {}
      /\ \A n \in Works : tracked'[n] = {}
      /\ \A k \in Kinds : stoppers'[k] = 0
      /\ dirty' = {} /\ waiting' = {} /\ deleted' = {} /\ UNCHANGED <<present, applied>>
      /\ \A n \in Works : events'[n] = IF n \in present THEN 1 ELSE 0
  BY DEF Restart, IdleWorker, IdleStarter
<1>3. WorkersOK' /\ QueueOK'
  BY <1>1, <1>2 DEF WorkersOK, QueueOK, Busy
<1>4. TrackedOK' /\ CountedOK'
  BY <1>1, <1>2 DEF TrackedOK, CountedOK, Busy
<1>5. PendingOK' /\ ClosedStopperIsBeingRemoved'
  BY <1>1, <1>2 DEF PendingOK, Pending, ClosedStopperIsBeingRemoved, TypeOK
<1> QED
  BY <1>1, <1>3, <1>4, <1>5 DEF Inv

(* A step of startInformers: no reference is lost.                         *)
StartEffect(s) ==
    /\ UNCHANGED <<clusterVars, queueVars, tracked, worker>>
    /\ \A t \in Starters \ {s} : starter'[t] = starter[t]
    /\ starter'[s].pc = "idle" => starter'[s].todo = {}
    /\ \A k \in Kinds : count[k] \subseteq count'[k]
    /\ abandoned \subseteq abandoned'
    /\ \A u \in starter[s].todo : \/ u \in starter'[s].todo
                                  \/ u \in count'[KindOf[u]]
                                  \/ KindOf[u] \in Excluded
                                  \/ u \in abandoned'
    /\ \A k \in Kinds : \/ stoppers'[k] = stoppers[k] /\ running[k] \subseteq running'[k]
                        \/ stoppers'[k] \in running'[k]

(* Every step of startInformers is a StartEffect.                          *)
LEMMA StarterEffect ==
    ASSUME TypeOK, CountedOK, NEW s \in Starters, StarterStep(s)
    PROVE  StartEffect(s)
<1> USE ConstantsAssumption DEF TypeOK, StartEffect
<1>0. /\ starter[s] \in StarterState
      /\ starter[s].todo \subseteq UIDs
      /\ \A u \in UIDs : KindOf[u] \in Kinds
  BY DEF StarterState
<1>1. CASE startGetRestMapper(s) \/ startSetRestMapper(s)
  <2>1. /\ \A t \in Starters \ {s} : starter'[t] = starter[t]
        /\ starter'[s].pc # "idle" /\ starter'[s].todo = starter[s].todo
    BY <1>0, <1>1 DEF startGetRestMapper, startSetRestMapper, StarterState
  <2> QED
    BY <1>1, <2>1 DEF startGetRestMapper, startSetRestMapper, outerVars, miscVars,
       sharedVars, memoVars, mapVars
<1>2. ASSUME NEW u \in starter[s].todo, startInformers(s, u)
      PROVE  StartEffect(s)
  <2>1. \A t \in Starters \ {s} : starter'[t] = starter[t]
    BY <1>2 DEF startInformers
  <2>2. UNCHANGED <<clusterVars, queueVars, tracked, worker, stoppers, running>>
    BY <1>2 DEF startInformers, mapVars
  <2>3. CASE starter' = starter /\ count' = count /\ abandoned' = abandoned
    BY <1>2, <2>1, <2>2, <2>3 DEF CountedOK
  <2>4. CASE /\ starter' = [starter EXCEPT ![s] = IdleStarter]
             /\ abandoned' = abandoned \cup starter[s].todo /\ count' = count
    BY <2>1, <2>2, <2>4 DEF IdleStarter
  <2>5. CASE /\ starter' = [starter EXCEPT ![s].todo = @ \ {u}]
             /\ KindOf[u] \in Excluded /\ count' = count /\ abandoned' = abandoned
    <3>1. starter'[s].todo = starter[s].todo \ {u} /\ starter'[s].pc = "loop"
      BY <1>0, <1>2, <2>5 DEF startInformers, StarterState
    <3> QED
      BY <2>1, <2>2, <2>5, <3>1
  <2>6. CASE /\ starter' = [starter EXCEPT ![s].pc = "count", ![s].cur = u, ![s].todo = @ \ {u}]
             /\ count' = AddUID(count, KindOf[u], u) /\ abandoned' = abandoned
    <3>1. starter'[s].todo = starter[s].todo \ {u} /\ starter'[s].pc = "count"
      BY <1>0, <2>6 DEF StarterState
    <3>2. u \in count'[KindOf[u]] /\ \A k \in Kinds : count[k] \subseteq count'[k]
      BY <1>0, <2>6 DEF AddUID
    <3> QED
      BY <2>1, <2>2, <2>6, <3>1, <3>2
  <2> QED
    BY <1>2, <2>3, <2>4, <2>5, <2>6 DEF startInformers
<1>3. CASE startGetUIDCount(s)
  <2>1. /\ \A t \in Starters \ {s} : starter'[t] = starter[t]
        /\ starter'[s].pc # "idle" /\ starter'[s].todo = starter[s].todo
    BY <1>0, <1>3 DEF startGetUIDCount, StarterState
  <2> QED
    BY <1>3, <2>1 DEF startGetUIDCount, outerVars, miscVars, memoVars
<1>4. CASE informersSet(s) \/ listersSet(s)
  <2>1. /\ \A t \in Starters \ {s} : starter'[t] = starter[t]
        /\ starter'[s].pc # "idle" /\ starter'[s].todo = starter[s].todo
    BY <1>0, <1>4 DEF informersSet, listersSet, StarterState
  <2> QED
    BY <1>4, <2>1 DEF informersSet, listersSet, outerVars, miscVars, memoVars
<1>5. CASE stoppersSet(s)
  <2>1. /\ \A t \in Starters \ {s} : starter'[t] = starter[t]
        /\ starter'[s].pc # "idle" /\ starter'[s].todo = starter[s].todo
    BY <1>0, <1>5 DEF stoppersSet, StarterState
  <2>2. \A k \in Kinds : \/ stoppers'[k] = stoppers[k] /\ running[k] \subseteq running'[k]
                         \/ stoppers'[k] \in running'[k]
    BY <1>0, <1>5 DEF stoppersSet, Set
  <2> QED
    BY <1>5, <2>1, <2>2 DEF stoppersSet, outerVars, miscVars, memoVars
<1>6. CASE startReturns(s)
  BY <1>6 DEF startReturns, IdleStarter, outerVars, miscVars, sharedVars, memoVars, mapVars
<1> QED
  BY <1>1, <1>2, <1>3, <1>4, <1>5, <1>6 DEF StarterStep

(* startInformers keeps the invariant.                                     *)
LEMMA StarterInv ==
    ASSUME Inv, NEW s \in Starters, StarterStep(s)
    PROVE  Inv'
<1> USE ConstantsAssumption
<1>0. /\ TypeOK /\ WorkersOK /\ QueueOK /\ TrackedOK /\ CountedOK /\ PendingOK
      /\ ClosedStopperIsBeingRemoved
      /\ TypeOK' /\ StartEffect(s)
  BY StarterType, StarterEffect DEF Inv
<1>1. UNCHANGED <<present, applied, deleted, events, dirty, waiting, tracked, worker>>
  BY <1>0 DEF StartEffect, clusterVars, queueVars
<1>2. WorkersOK' /\ QueueOK'
  BY <1>0, <1>1 DEF WorkersOK, WorkerOK, QueueOK, Busy, Of, Deciding, Stopping
<1>3. TrackedOK' /\ PendingOK'
  BY <1>0, <1>1 DEF TrackedOK, PendingOK, Pending, Settled, Busy, Of, Deciding, Stopping
<1>4. ASSUME NEW u \in UIDs, Counted(u) PROVE Counted(u)'
  BY <1>0, <1>4 DEF Counted, StartEffect, TypeOK
<1>5. CountedOK'
  <2>1. \A n \in Works : tracked[n] \subseteq UIDs
    BY <1>0 DEF TypeOK
  <2>2. \A t \in Starters : starter'[t].pc = "idle" => starter'[t].todo = {}
    BY <1>0 DEF CountedOK, StartEffect
  <2>3. \A n \in Works \ deleted : \A u \in tracked[n] : Sole(u) => Counted(u)
    BY <1>0 DEF CountedOK
  <2> QED
    BY <1>1, <1>4, <2>1, <2>2, <2>3 DEF CountedOK, Sole
<1>6. ClosedStopperIsBeingRemoved'
  BY <1>0, <1>1 DEF ClosedStopperIsBeingRemoved, StartEffect
<1> QED
  BY <1>0, <1>2, <1>3, <1>5, <1>6 DEF Inv

(* What holds of the workers' keys after any step of worker w, when it     *)
(* keeps its key or becomes idle.                                          *)
LEMMA KeysKept ==
    ASSUME Inv, NEW w \in Workers, Busy(w), UNCHANGED <<clusterVars, queueVars>>,
           \A v \in Workers \ {w} : worker'[v] = worker[v],
           Busy(w)' => worker'[w].key = worker[w].key /\ WorkerOK(w)'
    PROVE  WorkersOK' /\ QueueOK'
<1>0. WorkersOK /\ QueueOK /\ UNCHANGED <<deleted, dirty, waiting, events, present>>
  BY DEF Inv, clusterVars, queueVars
<1>1. ASSUME NEW v \in Workers, Busy(v)' PROVE Busy(v) /\ worker'[v].key = worker[v].key
  BY <1>1 DEF Busy
<1>2. ASSUME NEW v \in Workers, Busy(v)' PROVE WorkerOK(v)'
  BY <1>0, <1>2 DEF WorkersOK, WorkerOK, Busy, Of, Deciding, Stopping
<1>3. WorkersOK'
  BY <1>0, <1>1, <1>2 DEF WorkersOK
<1>4. QueueOK'
  BY <1>0, <1>1 DEF QueueOK, Of
<1> QED
  BY <1>3, <1>4

(* Workers that hold the key of one work that was not deleted are the same.*)
LEMMA OneWorkerPerWork ==
    ASSUME Inv, NEW v \in Workers, NEW w \in Workers, Busy(v), Busy(w),
           Of(v) = Of(w), Of(v) \notin deleted
    PROVE  v = w
<1>1. worker[v].key \in Works \X Nat /\ worker[w].key \in Works \X Nat
  BY DEF Inv, WorkersOK, WorkerOK, Key
<1>2. worker[v].key[2] = 0 /\ worker[w].key[2] = 0
  BY DEF Inv, QueueOK
<1>3. worker[v].key = worker[w].key
  BY <1>1, <1>2 DEF Of
<1> QED
  BY <1>3 DEF Inv, WorkersOK

(* reconcile keeps the invariant: a key is given to one worker only.       *)
LEMMA ReconcileInv ==
    ASSUME Inv, NEW w \in Workers, NEW k \in dirty, reconcile(w, k)
    PROVE  Inv'
<1> USE ConstantsAssumption
<1>0. /\ TypeOK /\ WorkersOK /\ QueueOK /\ TrackedOK /\ CountedOK /\ PendingOK
      /\ ClosedStopperIsBeingRemoved
      /\ TypeOK'
  BY WorkerType DEF Inv, WorkerStep
<1>1. /\ k \in Works \X Nat /\ worker[w].pc = "idle" /\ dirty' = dirty \ {k}
      /\ k \notin processing /\ waiting' \subseteq waiting \cup {k}
      /\ UNCHANGED <<present, applied, deleted, events, tracked, count, abandoned,
                     starter, stoppers, running>>
      /\ \A v \in Workers \ {w} : worker'[v] = worker[v]
  BY <1>0 DEF reconcile, outerVars, clusterVars, miscVars, sharedVars, memoVars, mapVars,
     TypeOK, Key
<1>2. /\ worker'[w].pc \in {"idle", "get", "untrack"}
      /\ worker'[w].pc # "idle" =>
            /\ worker'[w].key = k /\ worker'[w].todo = {} /\ worker'[w].cur = None
      /\ worker'[w].pc = "get" => worker'[w].info = applied[k[1]] /\ ~worker'[w].gone
      /\ worker'[w].pc = "untrack" => worker'[w].info = {} /\ worker'[w].gone /\ k[2] # 0
      /\ k[1] \in present /\ applied[k[1]] # {} => worker'[w].pc = "get"
  <2> DEFINE live == [IdleWorker EXCEPT !.pc = "get", !.key = k, !.info = applied[k[1]]]
             gone == [IdleWorker EXCEPT !.pc = "untrack", !.key = k, !.gone = TRUE]
  <2>1. /\ live.pc = "get" /\ live.key = k /\ live.info = applied[k[1]] /\ live.todo = {}
        /\ live.cur = None /\ live.gone = FALSE
    BY DEF IdleWorker
  <2>2. /\ gone.pc = "untrack" /\ gone.key = k /\ gone.info = {} /\ gone.todo = {}
        /\ gone.cur = None /\ gone.gone = TRUE
    BY DEF IdleWorker
  <2> HIDE DEF live, gone
  <2>3. \/ worker' = worker /\ ~(k[1] \in present /\ applied[k[1]] # {})
        \/ worker' = [worker EXCEPT ![w] = live]
        \/ /\ worker' = [worker EXCEPT ![w] = gone] /\ k[2] # 0
           /\ ~(k[1] \in present /\ applied[k[1]] # {})
    BY DEF reconcile, live, gone
  <2>4. \/ worker'[w] = worker[w] /\ ~(k[1] \in present /\ applied[k[1]] # {})
        \/ worker'[w] = live
        \/ /\ worker'[w] = gone /\ k[2] # 0
           /\ ~(k[1] \in present /\ applied[k[1]] # {})
    BY <1>0, <2>3 DEF TypeOK
  <2> QED
    BY <1>1, <2>1, <2>2, <2>4
<1>3. k[2] # 0 => k[1] \in deleted
  BY <1>0 DEF QueueOK
<1>4. WorkersOK'
  <2>1. Busy(w)' => WorkerOK(w)'
    BY <1>0, <1>1, <1>2, <1>3 DEF WorkerOK, Busy, Of, Deciding, Stopping, Key, TrackedOK,
       Closing, InLoop
  <2>2. \A v \in Workers \ {w} : worker'[v] = worker[v] /\ worker[v].key # k
    BY <1>1 DEF processing
  <2>3. ASSUME NEW v \in Workers, Busy(v)' PROVE WorkerOK(v)'
    BY <1>0, <1>1, <2>1, <2>3 DEF WorkersOK, WorkerOK, Busy, Of, Deciding, Stopping
  <2>4. ASSUME NEW v \in Workers, NEW x \in Workers, Busy(v)', Busy(x)',
               worker'[v].key = worker'[x].key
        PROVE  v = x
    BY <1>0, <1>2, <2>2, <2>4 DEF WorkersOK, Busy
  <2> QED
    BY <2>3, <2>4 DEF WorkersOK
<1>5. QueueOK'
  BY <1>0, <1>1, <1>2, <1>3 DEF QueueOK, Busy, Of
<1>6. TrackedOK'
  <2>1. ASSUME NEW v \in Workers, (Busy(v) /\ Of(v) \notin deleted)'
        PROVE  /\ worker'[v].pc = "set" => worker'[v].todo = tracked[Of(v)']
               /\ Stopping(v)' => (worker'[v].todo \cup {worker'[v].cur}) \cap tracked[Of(v)'] = {}
    <3>1. CASE v = w
      BY <1>1, <1>2, <1>3, <2>1, <3>1 DEF Busy, Of, Stopping, Deciding
    <3>2. CASE v # w
      BY <1>0, <1>1, <2>1, <3>2 DEF TrackedOK, Busy, Of, Stopping, Deciding
    <3> QED
      BY <3>1, <3>2
  <2> QED
    BY <1>0, <1>1, <2>1 DEF TrackedOK, Of
<1>7. CountedOK' /\ ClosedStopperIsBeingRemoved'
  BY <1>0, <1>1 DEF CountedOK, Counted, ClosedStopperIsBeingRemoved, Closing
<1>8. PendingOK'
  <2> SUFFICES ASSUME NEW m \in present \ deleted, applied[m] # {}, ~Pending(m)'
               PROVE  Settled(m)'
    BY <1>1 DEF PendingOK
  <2>1. CASE m # k[1]
    <3>1. ~Pending(m)
      BY <1>1, <2>1 DEF Pending
    <3>2. \A v \in Workers : /\ Deciding(v)' /\ Of(v)' = m <=> Deciding(v) /\ Of(v) = m
                             /\ Deciding(v) /\ Of(v) = m => worker'[v] = worker[v]
      BY <1>1, <1>2, <2>1 DEF Deciding, Of
    <3> QED
      BY <1>0, <1>1, <3>1, <3>2 DEF PendingOK, Settled
  <2>2. CASE m = k[1]
    <3>1. k[2] = 0 /\ worker'[w].pc = "get"
      BY <1>1, <1>2, <1>3, <2>2
    <3>2. ASSUME NEW v \in Workers, Deciding(v)', Of(v)' = m PROVE v = w
      <4> SUFFICES ASSUME v # w PROVE FALSE
        OBVIOUS
      <4>1. Deciding(v) /\ Of(v) = m /\ Busy(v)
        BY <1>1, <3>2 DEF Deciding, Of, Busy
      <4>2. worker[v].key \in Works \X Nat /\ worker[v].key[2] = 0
        BY <1>0, <4>1 DEF WorkersOK, WorkerOK, QueueOK, Key
      <4>3. worker[v].key = k
        BY <1>1, <2>2, <3>1, <4>1, <4>2 DEF Of
      <4> QED
        BY <1>1, <4>3 DEF processing
    <3> QED
      BY <1>1, <1>2, <2>2, <3>1, <3>2 DEF Settled, Deciding, Of
  <2> QED
    BY <2>1, <2>2
<1> QED
  BY <1>0, <1>4, <1>5, <1>6, <1>7, <1>8 DEF Inv

(* Comparing the present list with the tracked one keeps the invariant.    *)
LEMMA TrackedGetInv ==
    ASSUME Inv, NEW w \in Workers, trackedGet(w)
    PROVE  Inv'
<1> USE ConstantsAssumption
<1> DEFINE n == Of(w)
<1>0. /\ TypeOK /\ WorkersOK /\ QueueOK /\ TrackedOK /\ CountedOK /\ PendingOK
      /\ ClosedStopperIsBeingRemoved
      /\ TypeOK' /\ worker[w] \in WorkerState
  BY WorkerType DEF Inv, WorkerStep, TypeOK
<1>1. /\ UNCHANGED <<clusterVars, queueVars, tracked, count, abandoned, starter, stoppers, running>>
      /\ worker[w].pc = "get"
      /\ n = worker[w].key[1]
  BY DEF trackedGet, outerVars, miscVars, sharedVars, memoVars, mapVars, Of
<1>2. /\ \A v \in Workers \ {w} : worker'[v] = worker[v]
      /\ \/ worker'[w] = IdleWorker /\ worker[w].info = tracked[n]
         \/ /\ worker'[w].pc = "set" /\ worker'[w].todo = tracked[n]
            /\ worker'[w].key = worker[w].key /\ worker'[w].info = worker[w].info
            /\ worker'[w].cur = worker[w].cur /\ worker'[w].gone = worker[w].gone
  <2>1. TRUE \in DeepEqual(worker[w].info, tracked[n]) => worker[w].info = tracked[n]
    BY DEF DeepEqual
  <2>2. \/ worker' = [worker EXCEPT ![w] = IdleWorker] /\ worker[w].info = tracked[n]
        \/ worker' = [worker EXCEPT ![w].pc = "set", ![w].todo = tracked[n]]
    BY <1>1, <2>1 DEF trackedGet, Done
  <2>3. CASE worker' = [worker EXCEPT ![w] = IdleWorker] /\ worker[w].info = tracked[n]
    BY <1>0, <2>3 DEF TypeOK
  <2>4. CASE worker' = [worker EXCEPT ![w].pc = "set", ![w].todo = tracked[n]]
    BY <1>0, <2>4 DEF TypeOK, WorkerState
  <2> QED
    BY <2>2, <2>3, <2>4
<1>3. UNCHANGED <<present, applied, deleted, events, dirty>>
  BY <1>1 DEF clusterVars, queueVars
<1>4. Busy(w) /\ WorkerOK(w) /\ n \in Works
  BY <1>0, <1>1 DEF WorkersOK, WorkerOK, Busy, Of, Key
<1>5. WorkersOK' /\ QueueOK'
  <2>1. Busy(w)' => worker'[w].key = worker[w].key /\ WorkerOK(w)'
    BY <1>0, <1>1, <1>2, <1>3, <1>4 DEF WorkerOK, TrackedOK, Busy, Of, Deciding, Stopping,
       Closing, InLoop, IdleWorker
  <2> QED
    BY <1>1, <1>2, <1>4, <2>1, KeysKept
<1>6. TrackedOK'
  BY <1>0, <1>1, <1>2, <1>3 DEF TrackedOK, Busy, Of, Deciding, Stopping, IdleWorker
<1>7. CountedOK' /\ ClosedStopperIsBeingRemoved'
  BY <1>0, <1>1, <1>2, <1>3 DEF CountedOK, Counted, ClosedStopperIsBeingRemoved, Closing
<1>8. PendingOK'
  <2> SUFFICES ASSUME NEW m \in present \ deleted, applied[m] # {}, ~Pending(m)
               PROVE  Settled(m)'
    BY <1>3 DEF PendingOK, Pending
  <2>1. Settled(m)
    BY <1>0 DEF PendingOK
  <2>2. \A v \in Workers : /\ Deciding(v)' /\ Of(v)' = m => Deciding(v) /\ Of(v) = m
                           /\ Deciding(v)' => worker'[v].info = worker[v].info
    BY <1>1, <1>2 DEF Deciding, Of, IdleWorker
  <2>3. CASE m = n /\ worker'[w] = IdleWorker
    BY <1>1, <1>2, <1>3, <2>1, <2>2, <2>3 DEF Settled, Deciding, IdleWorker
  <2>4. CASE ~(m = n /\ worker'[w] = IdleWorker)
    <3>1. \A v \in Workers : Deciding(v) /\ Of(v) = m => Deciding(v)' /\ Of(v)' = m
      BY <1>1, <1>2, <2>4 DEF Deciding, Of
    <3> QED
      BY <1>1, <1>3, <2>1, <2>2, <3>1 DEF Settled
  <2> QED
    BY <2>3, <2>4
<1> QED
  BY <1>0, <1>5, <1>6, <1>7, <1>8 DEF Inv

(* Tracking a new list keeps the invariant: what is new is handed on.      *)
LEMMA TrackedSetInv ==
    ASSUME Inv, NEW w \in Workers, NEW s \in Starters, trackedSet(w, s)
    PROVE  Inv'
<1> USE ConstantsAssumption
<1> DEFINE n    == Of(w)
           old  == worker[w].todo
           info == worker[w].info
<1>0. /\ TypeOK /\ WorkersOK /\ QueueOK /\ TrackedOK /\ CountedOK /\ PendingOK
      /\ ClosedStopperIsBeingRemoved
      /\ TypeOK' /\ worker[w] \in WorkerState
  BY WorkerType DEF Inv, WorkerStep, TypeOK
<1>1. /\ UNCHANGED <<clusterVars, queueVars, count, abandoned, stoppers, running>>
      /\ worker[w].pc = "set" /\ starter[s].pc = "idle" /\ Busy(w)
      /\ tracked' = [tracked EXCEPT ![n] = info]
  BY DEF trackedSet, outerVars, miscVars, mapVars, Of, Set, Busy
<1>2. UNCHANGED <<present, applied, deleted, events, dirty>>
  BY <1>1 DEF clusterVars, queueVars
<1>3. WorkerOK(w) /\ n \in Works /\ old \subseteq UIDs /\ info \subseteq UIDs
  BY <1>0, <1>1 DEF WorkersOK, WorkerOK, Busy, Of, Key, WorkerState
<1>4. /\ \A t \in Starters \ {s} : starter'[t] = starter[t]
      /\ starter'[s].todo = info \ old /\ starter'[s].pc # "idle"
  <2>1. starter' = [starter EXCEPT ![s] =
                       [IdleStarter EXCEPT !.pc = "discover", !.todo = info \ old]]
    BY DEF trackedSet, Added
  <2> QED
    BY <1>0, <2>1 DEF TypeOK, IdleStarter
<1>5. /\ \A v \in Workers \ {w} : worker'[v] = worker[v]
      /\ \/ worker'[w].pc = "idle"
         \/ /\ worker'[w].pc = "stop" /\ worker'[w].todo = old \ info
            /\ worker'[w].key = worker[w].key /\ worker'[w].info = info
            /\ worker'[w].cur = worker[w].cur /\ worker'[w].gone = worker[w].gone
  <2>1. CASE worker' = [worker EXCEPT ![w] = IdleWorker]
    BY <1>0, <2>1 DEF TypeOK, IdleWorker
  <2>2. CASE worker' = [worker EXCEPT ![w].pc = "stop", ![w].todo = old \ info]
    BY <1>0, <2>2 DEF TypeOK, WorkerState
  <2> QED
    BY <2>1, <2>2 DEF trackedSet, Done, Removed
<1>6. /\ tracked'[n] = info
      /\ \A m \in Works \ {n} : tracked'[m] = tracked[m]
  BY <1>0, <1>1, <1>3 DEF TypeOK
<1>7. /\ info \cup old \subseteq MayList[n] /\ worker[w].cur = None /\ ~worker[w].gone
      /\ n \notin deleted => old = tracked[n]
  BY <1>0, <1>1, <1>3 DEF WorkerOK, Deciding, Stopping, TrackedOK, Busy
<1> HIDE DEF n, old, info
<1>8. WorkersOK' /\ QueueOK'
  <2>1. Busy(w)' => worker'[w].key = worker[w].key /\ WorkerOK(w)'
    BY <1>2, <1>3, <1>5, <1>7 DEF WorkerOK, Busy, Of, Deciding, Stopping, Closing, InLoop, n
  <2> QED
    BY <1>1, <1>5, <2>1, KeysKept
<1>9. TrackedOK'
  <2>1. \A m \in Works : (tracked[m] \cup applied[m] \subseteq MayList[m])'
    BY <1>0, <1>2, <1>6, <1>7 DEF TrackedOK
  <2>2. ASSUME NEW v \in Workers, (Busy(v) /\ Of(v) \notin deleted)'
        PROVE  (/\ worker[v].pc = "set" => worker[v].todo = tracked[Of(v)]
                /\ Stopping(v) => (worker[v].todo \cup {worker[v].cur}) \cap tracked[Of(v)] = {})'
    <3>1. CASE v = w
      <4>1. Of(v)' = n /\ worker'[w].pc = "stop"
        BY <1>5, <2>2, <3>1 DEF Of, Busy, n
      <4> QED
        BY <1>3, <1>5, <1>6, <1>7, <3>1, <4>1
    <3>2. CASE v # w
      <4>1. worker'[v] = worker[v] /\ Busy(v) /\ Of(v) \notin deleted /\ Of(v) \in Works
        BY <1>0, <1>2, <1>5, <2>2, <3>2 DEF Busy, Of, WorkersOK, WorkerOK, Key
      <4>2. Of(v) # n
        BY <1>1, <3>2, <4>1, OneWorkerPerWork DEF n
      <4>3. tracked'[Of(v)] = tracked[Of(v)]
        BY <1>6, <4>1, <4>2
      <4>4. Of(v)' = Of(v) /\ Stopping(v)' = Stopping(v)
        BY <4>1 DEF Of, Stopping, Deciding, Busy
      <4> QED
        BY <1>0, <4>1, <4>3, <4>4 DEF TrackedOK
    <3> QED
      BY <3>1, <3>2
  <2> QED
    BY <2>1, <2>2 DEF TrackedOK
<1>10. CountedOK'
  <2>1. \A t \in Starters : starter'[t].pc = "idle" => starter'[t].todo = {}
    BY <1>0, <1>4 DEF CountedOK
  <2>2. ASSUME NEW u, Counted(u) PROVE Counted(u)'
    BY <1>0, <1>1, <1>4, <2>2 DEF Counted, CountedOK
  <2>3. \A u \in info \ old : Counted(u)'
    BY <1>4 DEF Counted
  <2>4. ASSUME NEW m \in Works \ deleted, NEW u \in tracked'[m], Sole(u) PROVE Counted(u)'
    BY <1>0, <1>6, <1>7, <2>2, <2>3, <2>4 DEF CountedOK
  <2> QED
    BY <1>2, <2>1, <2>4 DEF CountedOK, Sole
<1>11. ClosedStopperIsBeingRemoved'
  BY <1>0, <1>1, <1>5 DEF ClosedStopperIsBeingRemoved, Closing
<1>12. PendingOK'
  <2> SUFFICES ASSUME NEW m \in present \ deleted, applied[m] # {}, ~Pending(m)
               PROVE  Settled(m)'
    BY <1>2 DEF PendingOK, Pending
  <2>0. m \in Works /\ Settled(m)
    BY <1>0 DEF PendingOK, TypeOK
  <2>1. \A v \in Workers : Deciding(v)' => v # w /\ worker'[v] = worker[v]
    BY <1>5 DEF Deciding
  <2>2. CASE m = n
    <3>1. info = applied[m]
      BY <1>1, <2>0, <2>2 DEF Settled, Deciding, n, info
    <3> QED
      BY <1>2, <1>6, <2>0, <2>1, <2>2, <3>1 DEF Settled, Deciding, Of
  <2>3. CASE m # n
    <3>1. tracked'[m] = tracked[m]
      BY <1>6, <2>0, <2>3
    <3>2. \A v \in Workers : Deciding(v) /\ Of(v) = m => Deciding(v)' /\ Of(v)' = m
      BY <1>5, <2>3 DEF Deciding, Of, n
    <3> QED
      BY <1>2, <2>0, <2>1, <3>1, <3>2 DEF Settled, Deciding, Of
  <2> QED
    BY <2>2, <2>3
<1> QED
  BY <1>0, <1>8, <1>9, <1>10, <1>11, <1>12 DEF Inv

(* Untracking a deleted work keeps the invariant.                          *)
LEMMA ForgetInv ==
    ASSUME Inv, NEW w \in Workers, trackedGetGone(w) \/ trackedDelete(w)
    PROVE  Inv'
<1> USE ConstantsAssumption
<1> DEFINE n == Of(w)
<1>0. /\ TypeOK /\ WorkersOK /\ QueueOK /\ TrackedOK /\ CountedOK /\ PendingOK
      /\ ClosedStopperIsBeingRemoved
      /\ TypeOK' /\ worker[w] \in WorkerState
  BY WorkerType DEF Inv, WorkerStep, TypeOK
<1>1. /\ UNCHANGED <<clusterVars, queueVars, count, abandoned, stoppers, running, starter>>
      /\ worker[w].pc \in {"untrack", "forget"} /\ Busy(w)
  BY DEF trackedGetGone, trackedDelete, outerVars, miscVars, sharedVars, memoVars, mapVars, Busy
<1>2. UNCHANGED <<present, applied, deleted, events, dirty>>
  BY <1>1 DEF clusterVars, queueVars
<1>3. WorkerOK(w) /\ n \in Works /\ n \in deleted /\ worker[w].gone
  BY <1>0, <1>1 DEF WorkersOK, WorkerOK, Of, Key
<1>4. /\ \A m \in Works \ {n} : tracked'[m] = tracked[m]
      /\ tracked'[n] \subseteq tracked[n]
  BY <1>0, <1>3 DEF trackedGetGone, trackedDelete, Delete, sharedVars, memoVars, TypeOK, Of
<1>5. /\ \A v \in Workers \ {w} : worker'[v] = worker[v]
      /\ \/ worker'[w].pc = "idle"
         \/ /\ worker'[w].pc = "stop" /\ worker'[w].todo = tracked[n]
            /\ worker'[w].key = worker[w].key /\ worker'[w].info = worker[w].info
            /\ worker'[w].cur = worker[w].cur /\ worker'[w].gone = worker[w].gone
  <2>1. CASE worker' = [worker EXCEPT ![w] = IdleWorker]
    BY <1>0, <2>1 DEF TypeOK, IdleWorker
  <2>2. CASE worker' = [worker EXCEPT ![w].pc = "stop", ![w].todo = tracked[n]]
    BY <1>0, <2>2 DEF TypeOK, WorkerState
  <2> QED
    BY <2>1, <2>2 DEF trackedGetGone, trackedDelete, Done, Of
<1> HIDE DEF n
<1>6. WorkersOK' /\ QueueOK'
  <2>1. Busy(w)' => worker'[w].key = worker[w].key /\ WorkerOK(w)'
    BY <1>0, <1>2, <1>3, <1>5 DEF WorkerOK, TrackedOK, Busy, Of, Deciding, Stopping, Closing, InLoop, n
  <2> QED
    BY <1>1, <1>5, <2>1, KeysKept
<1>7. TrackedOK'
  <2>1. \A m \in Works : (tracked[m] \cup applied[m] \subseteq MayList[m])'
    BY <1>0, <1>2, <1>4 DEF TrackedOK
  <2>2. ASSUME NEW v \in Workers, (Busy(v) /\ Of(v) \notin deleted)'
        PROVE  (/\ worker[v].pc = "set" => worker[v].todo = tracked[Of(v)]
                /\ Stopping(v) => (worker[v].todo \cup {worker[v].cur}) \cap tracked[Of(v)] = {})'
    <3>1. v # w
      BY <1>2, <1>3, <1>5, <2>2 DEF Busy, Of, n
    <3>2. worker'[v] = worker[v] /\ Busy(v) /\ Of(v) \in Works \ deleted
      BY <1>0, <1>2, <1>5, <2>2, <3>1 DEF Busy, Of, WorkersOK, WorkerOK, Key
    <3>3. tracked'[Of(v)] = tracked[Of(v)]
      BY <1>3, <1>4, <3>2
    <3>4. Of(v)' = Of(v) /\ Stopping(v)' = Stopping(v)
      BY <3>2 DEF Of, Stopping, Deciding, Busy
    <3> QED
      BY <1>0, <3>2, <3>3, <3>4 DEF TrackedOK
  <2> QED
    BY <2>1, <2>2 DEF TrackedOK
<1>8. CountedOK'
  BY <1>0, <1>1, <1>2, <1>3, <1>4 DEF CountedOK, Counted, Sole
<1>9. ClosedStopperIsBeingRemoved'
  BY <1>0, <1>1, <1>5 DEF ClosedStopperIsBeingRemoved, Closing
<1>10. PendingOK'
  <2> SUFFICES ASSUME NEW m \in present \ deleted, applied[m] # {}, ~Pending(m)
               PROVE  Settled(m)'
    BY <1>2 DEF PendingOK, Pending
  <2>1. m \in Works /\ Settled(m) /\ tracked'[m] = tracked[m]
    BY <1>0, <1>3, <1>4 DEF PendingOK, TypeOK
  <2>2. \A v \in Workers : /\ Deciding(v)' <=> Deciding(v)
                           /\ Deciding(v) => worker'[v] = worker[v]
    BY <1>1, <1>5 DEF Deciding
  <2> QED
    BY <1>2, <2>1, <2>2 DEF Settled, Of
<1> QED
  BY <1>0, <1>6, <1>7, <1>8, <1>9, <1>10 DEF Inv

(* How a worker inside stopInformers moves: it becomes idle, or goes on    *)
(* with what was left to stop.                                             *)
StopMove(w) ==
    /\ \A v \in Workers \ {w} : worker'[v] = worker[v]
    /\ \/ worker'[w].pc = "idle"
       \/ /\ worker'[w].key = worker[w].key /\ worker'[w].gone = worker[w].gone
          /\ worker'[w].info = worker[w].info
          /\ worker'[w].todo \subseteq worker[w].todo
          /\ worker'[w].cur \in {worker[w].cur} \cup worker[w].todo
          /\ worker'[w].pc \notin {"get", "set", "untrack"}
          /\ worker'[w].pc = "forget" => worker[w].gone
          /\ worker'[w].pc \in InLoop => worker'[w].cur \in UIDs

(* A closed stopper in the map was there before, and is not the one worker *)
(* w is about to delete, or worker w has just closed it.                   *)
CloseMove(w) ==
    \A k \in Kinds : stoppers'[k] # 0 /\ stoppers'[k] \notin running'[k] =>
        \/ /\ stoppers[k] # 0 /\ stoppers[k] \notin running[k]
           /\ ~(worker[w].pc \in Closing /\ KindOf[worker[w].cur] = k)
        \/ worker'[w].pc \in Closing /\ KindOf[worker'[w].cur] = k

StopEffect(w) ==
    /\ UNCHANGED <<clusterVars, queueVars, tracked, starter, abandoned>>
    /\ Stopping(w) /\ worker[w].pc # "untrack"
    /\ StopMove(w) /\ CloseMove(w)
    /\ \A k \in Kinds : count'[k] \in {count[k], count[k] \ {worker[w].cur}}

StopStep(w) ==
    \/ \E u \in worker[w].todo : stopInformers(w, u)
    \/ stopDeleteUID(w) \/ stopGetUIDCount(w) \/ stopInformer(w)
    \/ informersDelete(w) \/ listersDelete(w) \/ stoppersDelete(w)
    \/ stopGetRestMapper(w) \/ stopSetRestMapper(w)

(* Every step of stopInformers is a StopEffect.                            *)
LEMMA WorkerStopEffect ==
    ASSUME TypeOK, WorkersOK, NEW w \in Workers, StopStep(w)
    PROVE  StopEffect(w)
<1> USE ConstantsAssumption
<1>0. worker[w] \in WorkerState /\ worker \in [Workers -> WorkerState]
  BY DEF TypeOK
<1>1. /\ worker[w].pc \in InLoop \cup {"stop", "assign"}
      /\ Stopping(w) /\ worker[w].pc # "untrack"
  BY DEF StopStep, stopInformers, stopDeleteUID, stopGetUIDCount, stopInformer, informersDelete,
         listersDelete, stoppersDelete, stopGetRestMapper, stopSetRestMapper, InLoop, Closing,
         Stopping, Deciding, Busy
<1>2. /\ worker[w].pc \in InLoop => worker[w].cur \in UIDs
      /\ worker[w].todo \subseteq UIDs
  BY <1>0, <1>1 DEF WorkersOK, WorkerOK, InLoop, Stopping, WorkerState
<1>3. ASSUME NEW pc \in InLoop \cup {"stop"}, worker[w].pc \in InLoop, Goto(w, pc)
      PROVE  StopMove(w) /\ worker'[w].pc = pc /\ worker'[w].cur = worker[w].cur
  <2>1. /\ \A v \in Workers \ {w} : worker'[v] = worker[v]
        /\ worker'[w].pc = pc /\ worker'[w].key = worker[w].key
        /\ worker'[w].gone = worker[w].gone /\ worker'[w].info = worker[w].info
        /\ worker'[w].todo = worker[w].todo /\ worker'[w].cur = worker[w].cur
    BY <1>0, <1>3 DEF Goto, WorkerState
  <2> QED
    BY <1>2, <1>3, <2>1 DEF StopMove, InLoop, Closing
<1>4. ASSUME stopReturns(w)
      PROVE  StopMove(w)
  <2>1. CASE worker' = [worker EXCEPT ![w] = IdleWorker]
    BY <1>0, <2>1 DEF StopMove, IdleWorker
  <2>2. CASE worker[w].gone /\ worker' = [worker EXCEPT ![w].pc = "forget", ![w].todo = {}]
    BY <1>0, <2>2 DEF StopMove, WorkerState, InLoop, Closing
  <2> QED
    BY <1>4, <2>1, <2>2 DEF stopReturns, Done
<1>5. ASSUME UNCHANGED <<stoppers, running>>, worker[w].pc \notin Closing
      PROVE  CloseMove(w)
  BY <1>5 DEF CloseMove
<1>6. ASSUME NEW u \in worker[w].todo, stopInformers(w, u)
      PROVE  StopEffect(w)
  <2>1. StopMove(w)
    <3>1. CASE worker' = worker
      BY <1>0, <1>1, <1>2, <1>6, <3>1 DEF StopMove, stopInformers, InLoop, Closing
    <3>2. CASE worker' = [worker EXCEPT ![w].todo = @ \ {u}]
      BY <1>0, <1>6, <3>2 DEF StopMove, stopInformers, WorkerState, InLoop, Closing
    <3>3. CASE worker' = [worker EXCEPT ![w].pc = "delUID", ![w].cur = u, ![w].todo = @ \ {u}]
      BY <1>0, <1>2, <3>3 DEF StopMove, WorkerState
    <3> QED
      BY <1>4, <1>6, <3>1, <3>2, <3>3 DEF stopInformers
  <2>2. UNCHANGED <<clusterVars, queueVars, sharedVars, starter, abandoned>> /\ worker[w].pc = "stop"
    BY <1>6 DEF stopInformers
  <2>3. UNCHANGED <<stoppers, running, tracked, count>> /\ worker[w].pc \notin Closing
    BY <2>2 DEF sharedVars, memoVars, mapVars, Closing
  <2> QED
    BY <1>1, <1>5, <2>1, <2>2, <2>3 DEF StopEffect
<1>7. CASE stopDeleteUID(w)
  <2>1. worker[w].pc = "delUID" /\ Goto(w, "count")
    BY <1>7 DEF stopDeleteUID
  <2>2. /\ UNCHANGED <<stoppers, running, tracked, clusterVars, queueVars, starter, abandoned>>
        /\ worker[w].pc \notin Closing /\ worker[w].pc \in InLoop /\ "count" \in InLoop
    BY <1>7 DEF stopDeleteUID, mapVars, outerVars, miscVars, Closing, InLoop
  <2>3. \A k \in Kinds : count'[k] \in {count[k], count[k] \ {worker[w].cur}}
    BY <1>7 DEF stopDeleteUID, DeleteUID, TypeOK
  <2> QED
    BY <1>1, <1>3, <1>5, <2>1, <2>2, <2>3 DEF StopEffect
<1>8. CASE stopGetUIDCount(w)
  <2>1. \E pc \in {"close", "stop"} : Goto(w, pc)
    BY <1>8 DEF stopGetUIDCount
  <2>2. /\ UNCHANGED <<stoppers, running, tracked, count, clusterVars, queueVars, starter, abandoned>>
        /\ worker[w].pc \notin Closing /\ worker[w].pc \in InLoop /\ "close" \in InLoop
    BY <1>8 DEF stopGetUIDCount, sharedVars, memoVars, mapVars, outerVars, miscVars, Closing, InLoop
  <2> QED
    BY <1>1, <1>3, <1>5, <2>1, <2>2 DEF StopEffect
<1>9. CASE stopInformer(w)
  <2>1. /\ UNCHANGED <<stoppers, tracked, count, clusterVars, queueVars, starter, abandoned>>
        /\ worker[w].pc = "close" /\ worker[w].pc \notin Closing /\ worker[w].pc \in InLoop
        /\ "delInformer" \in InLoop \cap Closing
    BY <1>9 DEF stopInformer, memoVars, Closing, InLoop
  <2>2. CASE worker' = worker /\ running' = running
    <3>1. StopMove(w)
      BY <1>2, <2>1, <2>2 DEF StopMove
    <3> QED
      BY <1>1, <1>5, <2>1, <2>2, <3>1 DEF StopEffect
  <2>3. CASE /\ Goto(w, "delInformer")
             /\ running' = [running EXCEPT ![KindOf[worker[w].cur]] =
                                @ \ {stoppers[KindOf[worker[w].cur]]}]
    <3>1. StopMove(w) /\ worker'[w].pc = "delInformer" /\ worker'[w].cur = worker[w].cur
      BY <1>3, <2>1, <2>3
    <3>2. CloseMove(w)
      BY <2>1, <2>3, <3>1 DEF CloseMove, TypeOK
    <3> QED
      BY <1>1, <2>1, <3>1, <3>2 DEF StopEffect
  <2> QED
    BY <1>9, <2>2, <2>3 DEF stopInformer
<1>10. CASE informersDelete(w) \/ listersDelete(w)
  <2>1. /\ UNCHANGED <<stoppers, running, tracked, count, clusterVars, queueVars, starter, abandoned>>
        /\ worker[w].pc \in Closing /\ worker[w].pc \in InLoop
    BY <1>10 DEF informersDelete, listersDelete, memoVars, outerVars, miscVars, Closing, InLoop
  <2>2. \E pc \in Closing : Goto(w, pc)
    BY <1>10 DEF informersDelete, listersDelete, Closing
  <2>3. StopMove(w) /\ worker'[w].pc \in Closing /\ worker'[w].cur = worker[w].cur
    BY <1>3, <2>1, <2>2 DEF InLoop
  <2>4. CloseMove(w)
    BY <2>1, <2>3 DEF CloseMove
  <2> QED
    BY <1>1, <2>1, <2>3, <2>4 DEF StopEffect
<1>11. CASE stoppersDelete(w)
  <2>1. /\ UNCHANGED <<running, tracked, count, clusterVars, queueVars, starter, abandoned>>
        /\ worker[w].pc \in Closing /\ worker[w].pc \in InLoop
        /\ stoppers' = [stoppers EXCEPT ![KindOf[worker[w].cur]] = 0]
    BY <1>11 DEF stoppersDelete, Delete, memoVars, outerVars, miscVars, Closing, InLoop
  <2>2. StopMove(w)
    BY <1>3, <1>11, <2>1 DEF stoppersDelete
  <2>3. CloseMove(w)
    BY <1>2, <2>1 DEF CloseMove, TypeOK
  <2> QED
    BY <1>1, <2>1, <2>2, <2>3 DEF StopEffect
<1>12. CASE stopGetRestMapper(w)
  <2>1. PICK m : worker' = [worker EXCEPT ![w].pc = "assign", ![w].snap = m]
    BY <1>12 DEF stopGetRestMapper
  <2>2. StopMove(w)
    BY <1>0, <2>1 DEF StopMove, WorkerState, InLoop, Closing
  <2>3. /\ UNCHANGED <<stoppers, running, tracked, count, clusterVars, queueVars, starter, abandoned>>
        /\ worker[w].pc \notin Closing
    BY <1>12 DEF stopGetRestMapper, sharedVars, memoVars, mapVars, outerVars, miscVars, Closing
  <2> QED
    BY <1>1, <1>5, <2>2, <2>3 DEF StopEffect
<1>13. CASE stopSetRestMapper(w)
  <2>1. /\ UNCHANGED <<stoppers, running, tracked, count, clusterVars, queueVars, starter, abandoned>>
        /\ worker[w].pc \notin Closing /\ stopReturns(w)
    BY <1>13 DEF stopSetRestMapper, mapVars, outerVars, miscVars, Closing
  <2> QED
    BY <1>1, <1>4, <1>5, <2>1 DEF StopEffect
<1> QED
  BY <1>6, <1>7, <1>8, <1>9, <1>10, <1>11, <1>12, <1>13 DEF StopStep

(* stopInformers keeps the invariant.                                      *)
LEMMA StopInv ==
    ASSUME Inv, NEW w \in Workers, StopStep(w)
    PROVE  Inv'
<1> USE ConstantsAssumption
<1> DEFINE n == Of(w)
<1>0. /\ TypeOK /\ WorkersOK /\ QueueOK /\ TrackedOK /\ CountedOK /\ PendingOK
      /\ ClosedStopperIsBeingRemoved
      /\ StopEffect(w) /\ StopMove(w)
  BY WorkerStopEffect DEF Inv, StopEffect
<1>1. TypeOK'
  BY <1>0, WorkerType DEF StopStep, WorkerStep
<1>2. /\ UNCHANGED <<present, applied, deleted, events, dirty, tracked, starter, abandoned>>
      /\ Stopping(w) /\ Busy(w)
  BY <1>0 DEF StopEffect, clusterVars, queueVars, Stopping
<1>3. WorkerOK(w) /\ n \in Works
  BY <1>0, <1>2 DEF WorkersOK, WorkerOK, Of, Key
<1>4. WorkersOK' /\ QueueOK'
  <2>1. Busy(w)' => worker'[w].key = worker[w].key /\ WorkerOK(w)'
    BY <1>0, <1>2, <1>3 DEF StopMove, WorkerOK, Busy, Of, Deciding, Stopping, InLoop
  <2> QED
    BY <1>0, <1>2, <2>1, KeysKept DEF StopEffect, StopMove
<1>5. TrackedOK'
  <2>1. ASSUME NEW v \in Workers, (Busy(v) /\ Of(v) \notin deleted)'
        PROVE  (/\ worker[v].pc = "set" => worker[v].todo = tracked[Of(v)]
                /\ Stopping(v) => (worker[v].todo \cup {worker[v].cur}) \cap tracked[Of(v)] = {})'
    <3>1. CASE v = w
      <4>1. Of(w)' = n /\ n \notin deleted /\ worker'[w].pc # "set"
        BY <1>0, <1>2, <2>1, <3>1 DEF StopMove, Busy, Of
      <4>2. (worker[w].todo \cup {worker[w].cur}) \cap tracked[n] = {}
        BY <1>0, <1>2, <4>1 DEF TrackedOK
      <4>3. worker'[w].todo \cup {worker'[w].cur} \subseteq worker[w].todo \cup {worker[w].cur}
        BY <1>0, <2>1, <3>1 DEF StopMove, Busy
      <4> QED
        BY <1>2, <3>1, <4>1, <4>2, <4>3
    <3>2. CASE v # w
      <4>1. worker'[v] = worker[v]
        BY <1>0, <3>2 DEF StopMove
      <4> QED
        BY <1>0, <1>2, <2>1, <4>1 DEF TrackedOK, Busy, Of, Stopping, Deciding
    <3> QED
      BY <3>1, <3>2
  <2> QED
    BY <1>0, <1>2, <2>1 DEF TrackedOK
<1>6. CountedOK'
  <2>1. ASSUME NEW m \in Works \ deleted, NEW u \in tracked[m], Sole(u), Counted(u)
        PROVE  Counted(u)'
    <3>1. u \in UIDs /\ KindOf[u] \in Kinds
      BY <1>0 DEF TypeOK
    <3>2. u # worker[w].cur
      <4> SUFFICES ASSUME u = worker[w].cur PROVE FALSE
        OBVIOUS
      <4>1. u \in MayList[n] /\ u \in MayList[m]
        BY <1>0, <1>3, <3>1 DEF WorkerOK, TrackedOK
      <4>2. m = n
        BY <1>3, <2>1, <4>1 DEF Sole
      <4> QED
        BY <1>0, <1>2, <4>2 DEF TrackedOK
    <3> QED
      BY <1>0, <1>2, <2>1, <3>1, <3>2 DEF Counted, StopEffect
  <2> QED
    BY <1>0, <1>2, <2>1 DEF CountedOK, Sole
<1>7. PendingOK'
  <2> SUFFICES ASSUME NEW m \in present \ deleted, applied[m] # {}, ~Pending(m)
               PROVE  Settled(m)'
    BY <1>2 DEF PendingOK, Pending
  <2>1. m \in Works /\ Settled(m)
    BY <1>0 DEF PendingOK, TypeOK
  <2>2. \A v \in Workers : /\ Deciding(v)' <=> Deciding(v)
                           /\ Deciding(v) => worker'[v] = worker[v]
    BY <1>0, <1>2 DEF StopMove, Deciding, Stopping
  <2> QED
    BY <1>2, <2>1, <2>2 DEF Settled, Of
<1>8. ClosedStopperIsBeingRemoved'
  BY <1>0 DEF StopEffect, CloseMove, StopMove, ClosedStopperIsBeingRemoved
<1> QED
  BY <1>0, <1>1, <1>4, <1>5, <1>6, <1>7, <1>8 DEF Inv

(* Every step keeps the invariant.                                         *)
LEMMA NextInv == ASSUME Inv, [Next]_vars PROVE Inv'
<1>1. CASE Environment \/ (\E n \in Works : enqueueObject(n))
              \/ \E k \in waiting : AddRateLimitedFires(k)
  BY <1>1, ClusterInv
<1>2. ASSUME NEW w \in Workers, WorkerStep(w) PROVE Inv'
  BY <1>2, ReconcileInv, TrackedGetInv, TrackedSetInv, ForgetInv, StopInv DEF WorkerStep, StopStep
<1>3. ASSUME NEW s \in Starters, StarterStep(s) PROVE Inv'
  BY <1>3, StarterInv
<1>4. CASE Restart
  BY <1>4, RestartInv
<1>5. CASE UNCHANGED vars \/ Crash
  <2>0. /\ UNCHANGED <<clusterVars, restarts, abandoned, leaked, queueVars, sharedVars,
                       worker, starter>>
        /\ fault' \in {fault, "crash"}
    BY <1>5 DEF vars, outerVars, miscVars, Crash, Panic
  <2> USE <2>0 DEF clusterVars, queueVars, sharedVars, mapVars, memoVars
  <2>1. TypeOK' /\ WorkersOK' /\ QueueOK'
    BY DEF Inv, TypeOK, WorkersOK, WorkerOK, QueueOK, Busy, Of, Deciding, Stopping
  <2>2. TrackedOK' /\ CountedOK' /\ ClosedStopperIsBeingRemoved'
    BY DEF Inv, TrackedOK, CountedOK, Counted, ClosedStopperIsBeingRemoved, Busy, Of, Deciding, Stopping
  <2>3. PendingOK'
    BY DEF Inv, PendingOK, Pending, Settled, Deciding, Of
  <2> QED
    BY <2>1, <2>2, <2>3 DEF Inv
<1> QED
  BY <1>1, <1>2, <1>3, <1>4, <1>5 DEF Next

(* The invariant holds throughout.                                         *)
LEMMA InvHolds == Spec => []Inv
  BY InitInv, NextInv, PTL DEF Spec

(* Every variable of the informer registry keeps its type: in particular   *)
(* objectsCount holds UIDs only and every goroutine is at a known step.    *)
THEOREM TypeCorrect == Spec => []TypeOK
<1>1. Inv => TypeOK
  BY DEF Inv
<1> QED
  BY <1>1, InvHolds, PTL

(* startInformers and stopInformers never lose the reference of an object  *)
(* that is listed and tracked, for any number of works, objects, kinds,    *)
(* workers and goroutines, with failing discovery and restarts.            *)
THEOREM CountedSafe == Spec => []ListedObjectsCounted
<1>1. Inv => ListedObjectsCounted
  BY DEF Inv, CountedOK, Counted, ListedObjectsCounted
<1> QED
  BY <1>1, InvHolds, PTL

(* A stop channel that stopInformer closed is in the stoppers map only     *)
(* until the worker that closed it, or another of that kind, deletes it.   *)
THEOREM ClosedStopperSafe == Spec => []ClosedStopperIsBeingRemoved
<1>1. Inv => ClosedStopperIsBeingRemoved
  BY DEF Inv
<1> QED
  BY <1>1, InvHolds, PTL

(* No change of a work is lost between the event handler, the work queue   *)
(* and handleAppliedManifestWork: a quiet agent tracks the present list.   *)
THEOREM NoChangeLost == Spec => []ListedWorksTracked
<1>1. Inv => ListedWorksTracked
  <2> SUFFICES ASSUME Inv, Quiet, NEW n \in present \ deleted, applied[n] # {}
               PROVE  tracked[n] = applied[n]
    BY DEF ListedWorksTracked
  <2>1. n \in Works /\ events[n] = 0 /\ dirty = {} /\ \A w \in Workers : ~Deciding(w)
    BY DEF Quiet, Deciding, Inv, TypeOK
  <2> QED
    BY <2>1 DEF Inv, PendingOK, Pending, Settled
<1> QED
  BY <1>1, InvHolds, PTL
=============================================================================
