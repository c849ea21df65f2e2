----------------------------- MODULE SyncProofs -----------------------------
(***************************************************************************)
(* Proofs about WorkStatusSync.                                            *)
(***************************************************************************)
EXTENDS WorkStatusSync, TLAPS

Busy(w) == worker[w].pc # "idle"

(* A busy worker holds a key of its own, an idle one none; a worker that   *)
(* saw the object gone, because of a delete event, is on its way to delete *)
(* the WorkStatus, and no other is.                                        *)
WorkersOK ==
    /\ \A w \in Workers : IF Busy(w) THEN worker[w].key \in Objects \X Nat
                                     ELSE worker[w].key = NoKey
    /\ \A v, w \in Workers :
          Busy(v) /\ Busy(w) /\ worker[v].key = worker[w].key => v = w
    /\ \A w \in Workers : Busy(w) /\ worker[w].pc # "aw" =>
          (worker[w].gone <=> worker[w].pc \in {"delGet", "delete"})
    /\ \A w \in Workers : Busy(w) /\ worker[w].gone =>
          worker[w].obj = Gone /\ worker[w].key[2] # 0

(* The store has objects that exist only; versions count changes.          *)
StoreOK == \A o \in Objects :
    /\ o \in store => lister /\ object[o].exists
    /\ object[o].ver <= changes

(* An object that was never deleted, nor left by its informer before its   *)
(* notifications were handled, has no delete event: its notifications find *)
(* it in the store, and its only key is the one without a pointer.         *)
UndoubtedOK ==
    /\ \A o \in Objects \ doubtful : events[o] > 0 => o \in store
    /\ \A k \in dirty \cup waiting : k[1] \notin doubtful => k[2] = 0
    /\ \A w \in Workers : Busy(w) /\ Of(w) \notin doubtful =>
          worker[w].key[2] = 0 /\ ~worker[w].gone

(* What is reported for it is never newer than what a worker is about to   *)
(* report, and that is never newer than the object.                        *)
StatusOK == \A o \in Objects \ doubtful :
    /\ ws[o].status <= object[o].ver
    /\ \A w \in Workers : Busy(w) /\ Of(w) = o =>
          ws[o].status <= worker[w].obj.ver /\ worker[w].obj.ver <= object[o].ver

(* Two workers at one object are recorded as such.                         *)
OverlapOK ==
    /\ OneWorkerPerObject
    /\ \A v, w \in Workers :
          Busy(v) /\ Busy(w) /\ Of(v) = Of(w) => v = w \/ Of(w) \in overlapped

(* Only a ManifestWork that had a KubeStellar label when a worker looked   *)
(* gets a WorkStatus.                                                      *)
ManagedOK ==
    /\ mw = "ks" => managed
    /\ \A w \in Workers : worker[w].pc = "create" => managed

Inv == /\ TypeOK /\ WorkersOK /\ StoreOK /\ UndoubtedOK /\ OverlapOK
       /\ StatusOK /\ ManagedOK

(* The initial states are states of the invariant.                         *)
LEMMA InitInv == Init => Inv
<1> SUFFICES ASSUME Init PROVE Inv
  OBVIOUS
<1> USE ConstantsAssumption
<1>1. TypeOK
  BY DEF Init, TypeOK, Object, WorkStatus, WorkerState, PC, Key, Gone, NoWS,
         NoKey, IdleWorker
<1>2. WorkersOK /\ StoreOK /\ UndoubtedOK /\ StatusOK
  BY DEF Init, WorkersOK, StoreOK, UndoubtedOK, StatusOK, Busy, Of, Gone, NoWS, IdleWorker
<1>3. OverlapOK /\ ManagedOK
  BY DEF Init, OverlapOK, OneWorkerPerObject, ManagedOK, Busy, IdleWorker
<1> QED
  BY <1>1, <1>2, <1>3 DEF Inv

(* Outdating the copies workers have keeps their types.                    *)
LEMMA CopiesType ==
    ASSUME TypeOK, NEW o, NEW s
    PROVE  /\ Copies(o, s) \in [Workers -> WorkerState]
           /\ \A w \in Workers :
                 /\ Copies(o, s)[w].pc = worker[w].pc
                 /\ Copies(o, s)[w].key = worker[w].key
                 /\ Copies(o, s)[w].gone = worker[w].gone
                 /\ Copies(o, s)[w].obj = worker[w].obj
                 /\ Copies(o, s)[w].label = worker[w].label
  BY DEF TypeOK, Copies, WorkerState

(* The record of an idle worker has its type.                              *)
LEMMA IdleType == IdleWorker \in WorkerState
  BY ConstantsAssumption
     DEF IdleWorker, WorkerState, PC, Key, NoKey, Gone, Object

(* Types after a write to the hub, answered or not.                        *)
LEMMA WriteType ==
    ASSUME TypeOK, NEW w \in Workers, worker[w].key \in Objects \X Nat,
           NEW s \in WorkStatus, NEW next \in WorkerState, Write(w, s, next)
    PROVE  /\ ws' \in [Objects -> WorkStatus]
           /\ worker' \in [Workers -> WorkerState]
           /\ waiting' \subseteq Objects \X Nat
           /\ failures' \in Nat
<1>1. Of(w) \in Objects
  BY DEF Of
<1>2. ws' \in [Objects -> WorkStatus]
  BY <1>1 DEF Write, TypeOK
<1>3. worker' \in [Workers -> WorkerState]
  BY CopiesType, IdleType DEF Write
<1>4. waiting' \subseteq Objects \X Nat /\ failures' \in Nat
  BY DEF Write, HubFails, Requeue, TypeOK
<1> QED
  BY <1>2, <1>3, <1>4

(* Types after any step.                                                   *)
LEMMA TypeStep ==
    ASSUME TypeOK, WorkersOK, Next
    PROVE  TypeOK'
<1> USE ConstantsAssumption DEF TypeOK
<1>1. CASE Environment
  <2>1. ASSUME NEW o \in Objects, NEW v \in {0, changes + 1}, NEW l \in Labels,
               NEW own \in Owners, SetObject(o, v, l, own)
        PROVE  TypeOK'
    BY <2>1 DEF SetObject, Notify, Object, hubVars, historyVars
  <2>2. ASSUME NEW o \in Objects, DeleteObject(o)
        PROVE  TypeOK'
    BY <2>2 DEF DeleteObject, Notify, Object, Gone, hubVars
  <2>3. ASSUME NEW o \in Objects, GarbageCollect(o)
        PROVE  TypeOK'
    <3>1. ws' \in [Objects -> WorkStatus]
      BY <2>3 DEF GarbageCollect, WorkStatus, NoWS
    <3>2. worker' \in [Workers -> WorkerState]
      BY <2>3, CopiesType DEF GarbageCollect
    <3> QED
      BY <2>3, <3>1, <3>2 DEF GarbageCollect, clusterVars, queueVars, historyVars
  <2>4. CASE DeleteManifestWork
    BY <2>4 DEF DeleteManifestWork, clusterVars, queueVars, historyVars
  <2>8. CASE RelabelManifestWork
    <3>1. managed' = TRUE /\ mw' \in {"ks", "plain"} /\ changes' = changes + 1
      BY <2>8 DEF RelabelManifestWork
    <3> QED
      BY <2>8, <3>1 DEF RelabelManifestWork, queueVars
  <2>5. CASE RemoveAppliedManifestWork
    BY <2>5 DEF RemoveAppliedManifestWork, queueVars, hubVars, historyVars
  <2>6. CASE stopInformer /\ changes' = changes + 1
    <3>1. lister' = FALSE /\ store' = {} /\ doubtful' \subseteq Objects /\ changes' \in Nat
      BY <2>6 DEF stopInformer
    <3> QED
      BY <2>6, <3>1 DEF stopInformer, hubVars
  <2>7. CASE Restart
    <3>1. worker' \in [Workers -> WorkerState] /\ events' \in [Objects -> Nat]
      BY <2>7, IdleType DEF Restart
    <3>2. failures' \in Nat
      BY <2>7 DEF Restart, HubFails
    <3> QED
      BY <2>7, <3>1, <3>2 DEF Restart, clusterVars
  <2> QED
    BY <1>1, <2>1, <2>2, <2>3, <2>4, <2>5, <2>6, <2>7, <2>8 DEF Environment
<1>2. CASE startInformer
  BY <1>2 DEF startInformer, clusterVars, hubVars, historyVars
<1>3. ASSUME NEW o \in Objects, informerAdds(o) \/ enqueueObject(o)
      PROVE  TypeOK'
  BY <1>3 DEF informerAdds, enqueueObject, clusterVars, hubVars
<1>4. ASSUME NEW k \in waiting, AddRateLimitedFires(k)
      PROVE  TypeOK'
  BY <1>4 DEF AddRateLimitedFires, clusterVars, hubVars, historyVars
<1>5. ASSUME NEW w \in Workers, WorkerStep(w) \/ hubRequestFails(w)
      PROVE  TypeOK'
  <2>1. ASSUME NEW k \in dirty, reconcile(w, k)
        PROVE  TypeOK'
    <3>1. k \in Objects \X Nat /\ k \in Key /\ object[k[1]] \in Object
      BY DEF Key
    <3>2. Gone \in Object
      BY DEF Gone, Object
    <3> DEFINE next(g, x) ==
          [IdleWorker EXCEPT !.pc = "aw", !.key = k, !.gone = g, !.obj = x]
    <3>3. \A g \in BOOLEAN, x \in Object : next(g, x) \in WorkerState
      BY <3>1, IdleType DEF WorkerState, PC
    <3>4. \/ worker' = [worker EXCEPT ![w] = next(FALSE, object[k[1]])]
          \/ worker' = [worker EXCEPT ![w] = next(TRUE, Gone)]
          \/ worker' = worker
      BY <2>1 DEF reconcile, Begin, Drop
    <3> HIDE DEF next
    <3>5. next(FALSE, object[k[1]]) \in WorkerState /\ next(TRUE, Gone) \in WorkerState
      BY <3>1, <3>2, <3>3
    <3>6. worker' \in [Workers -> WorkerState]
      BY <3>4, <3>5
    <3>7. overlapped' \subseteq Objects /\ skipped' \subseteq Objects /\ missed' \subseteq Objects
      BY <2>1, <3>1 DEF reconcile, Begin, Drop
    <3> QED
      BY <2>1, <3>6, <3>7 DEF reconcile, clusterVars, hubVars
  <2> SUFFICES ASSUME worker[w].pc # "idle"
               PROVE  TypeOK'
    BY <1>5, <2>1 DEF WorkerStep, GetAppliedManifestWork, deleteGetWorkStatus,
       deleteWorkStatus, getWorkStatus, GetManifestWork, createWorkStatus,
       patchWorkStatus, updateStatus, hubRequestFails
  <2> DEFINE o == Of(w)
  <2>2. worker[w].key \in Objects \X Nat /\ o \in Objects
    BY DEF WorkersOK, Busy, Of
  <2>3. ASSUME NEW pc \in PC, Goto(w, pc)
        PROVE  worker' \in [Workers -> WorkerState]
    BY <2>3 DEF Goto, WorkerState
  <2>4. ASSUME Retry(w)
        PROVE  worker' \in [Workers -> WorkerState] /\ waiting' \subseteq Objects \X Nat
    BY <2>2, <2>4, IdleType DEF Retry, Requeue, Done
  <2>5. ASSUME Done(w)
        PROVE  worker' \in [Workers -> WorkerState]
    BY <2>5, IdleType DEF Done
  <2>6. CASE GetAppliedManifestWork(w) \/ GetManifestWork(w) \/ hubRequestFails(w)
             \/ deleteGetWorkStatus(w)
    BY <2>2, <2>3, <2>4, <2>5, <2>6 DEF GetAppliedManifestWork, GetManifestWork, PC,
       hubRequestFails, deleteGetWorkStatus, HubFails, clusterVars, queueVars, hubVars,
       historyVars
  <2>7. CASE deleteWorkStatus(w)
    <3>1. NoWS \in WorkStatus
      BY DEF NoWS, WorkStatus
    <3> QED
      BY <2>2, <2>5, <2>7, <3>1, CopiesType, IdleType DEF deleteWorkStatus,
         deleteFails, HubFails, clusterVars, queueVars
  <2>8. CASE getWorkStatus(w)
    <3>1. ws[o].label \in Nat
      BY <2>2 DEF WorkStatus
    <3> DEFINE found == [worker[w] EXCEPT !.pc = "patch", !.label = ws[o].label, !.fresh = TRUE]
               missing == [worker[w] EXCEPT !.pc = "getMW"]
    <3>2. found \in WorkerState /\ missing \in WorkerState
      BY <3>1 DEF WorkerState, PC
    <3>3. worker' = [worker EXCEPT ![w] = IF ws[o].exists THEN found ELSE missing]
      BY <2>8 DEF getWorkStatus
    <3> HIDE DEF found, missing
    <3> QED
      BY <2>8, <3>2, <3>3 DEF getWorkStatus, clusterVars, queueVars, hubVars, historyVars
  <2>9. CASE createWorkStatus(w)
    <3> DEFINE s == [exists |-> TRUE, status |-> 0, label |-> worker[w].obj.label]
               next == [worker[w] EXCEPT !.pc = "patch", !.label = s.label, !.fresh = TRUE]
    <3>1. s \in WorkStatus /\ next \in WorkerState
      <4>1. worker[w] \in WorkerState
        OBVIOUS
      <4>2. s \in WorkStatus /\ s.label \in Nat
        BY <4>1 DEF WorkStatus, WorkerState, Object
      <4> HIDE DEF s
      <4> QED
        BY <4>1, <4>2 DEF WorkerState, PC
    <3>2. \/ Retry(w) /\ UNCHANGED <<ws, failures>>
          \/ Write(w, s, next)
      BY <2>9 DEF createWorkStatus
    <3> HIDE DEF s, next
    <3> QED
      BY <2>2, <2>4, <2>9, <3>1, <3>2, WriteType DEF createWorkStatus, clusterVars, historyVars
  <2>10. CASE patchWorkStatus(w)
    <3> DEFINE s == [ws[o] EXCEPT !.label = worker[w].obj.label]
               next == [worker[w] EXCEPT !.label = worker[w].obj.label, !.fresh = TRUE]
    <3>1. s \in WorkStatus
      <4>1. ws[o] \in WorkStatus /\ worker[w].obj.label \in Nat
        BY <2>2 DEF WorkerState, Object
      <4> HIDE DEF o
      <4> QED
        BY <4>1 DEF WorkStatus
    <3>2. next \in WorkerState
      <4>1. worker[w] \in WorkerState /\ worker[w].obj.label \in Nat
        BY DEF WorkerState, Object
      <4> QED
        BY <4>1 DEF WorkerState
    <3>3. \/ Retry(w) /\ UNCHANGED <<ws, failures>>
          \/ Goto(w, "status") /\ UNCHANGED <<ws, failures, waiting>>
          \/ Write(w, s, next)
      BY <2>10 DEF patchWorkStatus, statusField
    <3> HIDE DEF s, next
    <3> QED
      BY <2>2, <2>3, <2>4, <2>10, <3>1, <3>2, <3>3, WriteType
         DEF patchWorkStatus, clusterVars, historyVars, PC
  <2>11. CASE updateStatus(w)
    <3> DEFINE s == [ws[o] EXCEPT !.status = worker[w].obj.ver]
    <3>1. s \in WorkStatus
      BY <2>2 DEF WorkStatus, WorkerState, Object
    <3>2. \/ Retry(w) /\ UNCHANGED <<ws, failures>>
          \/ Write(w, s, IdleWorker)
      BY <2>11 DEF updateStatus
    <3> HIDE DEF s
    <3> QED
      BY <2>2, <2>4, <2>11, <3>1, <3>2, WriteType, IdleType DEF updateStatus, clusterVars, historyVars
  <2> QED
    BY <1>5, <2>1, <2>6, <2>7, <2>8, <2>9, <2>10, <2>11 DEF WorkerStep
<1> QED
  BY <1>1, <1>2, <1>3, <1>4, <1>5 DEF Next

-----------------------------------------------------------------------------
(* What a step of a busy worker may do to the state the invariant is about *)
(* (deleteWorkStatus, createWorkStatus, patchWorkStatus and updateStatus   *)
(* are the only ones that write).                                          *)
Same(v) == /\ worker'[v].pc = worker[v].pc /\ worker'[v].key = worker[v].key
           /\ worker'[v].gone = worker[v].gone /\ worker'[v].obj = worker[v].obj
           /\ worker'[v].label = worker[v].label

Effect(w) ==
    /\ Busy(w)
    /\ \A v \in Workers \ {w} : Same(v)
    /\ \/ worker'[w].pc = "idle" /\ worker'[w].key = NoKey
       \/ /\ worker'[w].key = worker[w].key
          /\ worker'[w].gone = worker[w].gone /\ worker'[w].obj = worker[w].obj
          /\ worker'[w].pc \notin {"idle", "aw"}
          /\ worker[w].gone <=> worker'[w].pc \in {"delGet", "delete"}
          /\ worker'[w].pc = "create" => managed
    /\ \A o \in Objects : ws'[o] # ws[o] =>
          /\ o = Of(w)
          /\ \/ worker[w].pc = "delete" /\ ws'[o] = NoWS
             \/ /\ worker[w].pc = "create" /\ ~ws[o].exists
                /\ ws'[o].exists /\ ws'[o].status = 0
             \/ /\ ws[o].exists /\ ws'[o].exists
                /\ ws'[o].status \in {ws[o].status, worker[w].obj.ver}
    /\ waiting \subseteq waiting' /\ waiting' \subseteq waiting \cup {worker[w].key}
    /\ skipped \subseteq skipped' /\ missed \subseteq missed'
    /\ UNCHANGED <<clusterVars, lister, store, events, dirty, ptrs, mw,
                   managed, doubtful, overlapped>>

(* Every step of a worker that holds a key has the effect Effect.          *)
LEMMA WorkerEffect ==
    ASSUME TypeOK, WorkersOK, ManagedOK, NEW w \in Workers, Busy(w),
           WorkerStep(w) \/ hubRequestFails(w)
    PROVE  Effect(w)
<1> DEFINE o == Of(w)
<1>0. worker \in [Workers -> WorkerState] /\ ws \in [Objects -> WorkStatus] /\ o \in Objects
  BY ConstantsAssumption DEF TypeOK, WorkersOK, Of
<1>gone. /\ worker[w].pc \in {"get", "getMW", "create", "patch", "status"} => ~worker[w].gone
         /\ worker[w].pc \in {"delGet", "delete"} => worker[w].gone
  BY DEF WorkersOK
<1>1. ASSUME NEW pc, Goto(w, pc)
      PROVE  /\ \A v \in Workers \ {w} : Same(v)
             /\ worker'[w] = [worker[w] EXCEPT !.pc = pc]
  BY <1>0, <1>1 DEF Goto, Same
<1>2. ASSUME Done(w)
      PROVE  /\ \A v \in Workers \ {w} : Same(v)
             /\ worker'[w].pc = "idle" /\ worker'[w].key = NoKey
  BY <1>0, <1>2 DEF Done, Same, IdleWorker
<1>3. ASSUME NEW s, NEW next, worker' = [Copies(o, s) EXCEPT ![w] = next]
      PROVE  (\A v \in Workers \ {w} : Same(v)) /\ worker'[w] = next
  <2> HIDE DEF o
  <2> QED
    BY <1>3, CopiesType DEF Same
<1>4. ASSUME Retry(w), UNCHANGED <<clusterVars, lister, store, events, dirty, ptrs, mw, ws,
                                   historyVars>>
      PROVE  Effect(w)
  BY <1>2, <1>4 DEF Retry, Requeue, Effect, historyVars
<1>5. ASSUME Done(w), UNCHANGED <<clusterVars, queueVars, mw, ws, managed, doubtful, overlapped>>,
             skipped \subseteq skipped', missed \subseteq missed'
      PROVE  Effect(w)
  BY <1>2, <1>5 DEF Effect, queueVars
<1>6. ASSUME NEW pc \in PC, Goto(w, pc), UNCHANGED <<clusterVars, queueVars, mw, ws>>,
             UNCHANGED historyVars,
             pc \notin {"idle", "aw"}, worker[w].gone <=> pc \in {"delGet", "delete"},
             pc = "create" => managed
      PROVE  Effect(w)
  <2>1. worker[w] \in WorkerState
    BY <1>0
  <2>2. worker'[w] = [worker[w] EXCEPT !.pc = pc] /\ \A v \in Workers \ {w} : Same(v)
    BY <1>1, <1>6
  <2>3. /\ worker'[w].pc = pc /\ worker'[w].key = worker[w].key
        /\ worker'[w].gone = worker[w].gone /\ worker'[w].obj = worker[w].obj
    BY <2>1, <2>2 DEF WorkerState
  <2> QED
    BY <1>6, <2>2, <2>3 DEF Effect, queueVars, historyVars
<1>7. CASE GetAppliedManifestWork(w)
  BY <1>4, <1>6, <1>7 DEF GetAppliedManifestWork, queueVars, hubVars, historyVars, PC
<1>8. CASE GetManifestWork(w)
  BY <1>gone, <1>4, <1>5, <1>6, <1>8
     DEF GetManifestWork, queueVars, hubVars, historyVars, PC, ManagedOK
<1>9. CASE hubRequestFails(w)
  BY <1>4, <1>9 DEF hubRequestFails, historyVars
<1>10. CASE deleteGetWorkStatus(w)
  BY <1>gone, <1>6, <1>10 DEF deleteGetWorkStatus, hubVars, historyVars, PC
<1>11. CASE deleteWorkStatus(w)
  <2>1. CASE deleteFails /\ Done(w) /\ UNCHANGED ws /\ missed' = missed \cup {o}
    BY <1>5, <1>11, <2>1 DEF deleteWorkStatus
  <2>2. CASE /\ ws' = [ws EXCEPT ![o] = NoWS]
             /\ worker' = [Copies(o, NoWS) EXCEPT ![w] = IdleWorker]
             /\ UNCHANGED missed
    <3>1. (\A v \in Workers \ {w} : Same(v)) /\ worker'[w] = IdleWorker
      BY <1>3, <2>2
    <3>2. /\ worker[w].pc = "delete"
          /\ UNCHANGED <<clusterVars, queueVars, mw, managed, doubtful, overlapped>>
          /\ skipped' = skipped /\ missed' = missed
      BY <1>11, <2>2 DEF deleteWorkStatus
    <3>3. \A x \in Objects : ws'[x] # ws[x] => x = Of(w) /\ ws'[x] = NoWS
      BY <1>0, <2>2
    <3> QED
      BY <3>1, <3>2, <3>3 DEF Effect, queueVars, IdleWorker
  <2> QED
    BY <1>11, <2>1, <2>2 DEF deleteWorkStatus
<1>12. CASE getWorkStatus(w)
  BY <1>0, <1>gone, <1>12 DEF getWorkStatus, Effect, Same, queueVars, hubVars, historyVars, WorkerState
<1>13. ASSUME NEW s \in WorkStatus, NEW next \in WorkerState, Write(w, s, next),
              UNCHANGED <<clusterVars, lister, store, events, dirty, ptrs, mw, historyVars>>,
              \/ next = IdleWorker
              \/ /\ next.key = worker[w].key /\ next.gone = worker[w].gone
                 /\ next.obj = worker[w].obj /\ next.pc = "patch" /\ ~worker[w].gone,
              \/ worker[w].pc = "create" /\ ~ws[o].exists /\ s.exists /\ s.status = 0
              \/ ws[o].exists /\ s.exists /\ s.status \in {ws[o].status, worker[w].obj.ver}
       PROVE  Effect(w)
  <2>1. \/ worker' = [Copies(o, s) EXCEPT ![w] = next] /\ UNCHANGED waiting
        \/ worker' = [Copies(o, s) EXCEPT ![w] = IdleWorker] /\ Requeue(w)
    BY <1>13 DEF Write
  <2>2. \A v \in Workers \ {w} : Same(v)
    BY <1>3, <2>1
  <2>3. /\ worker'[w] \in {next, IdleWorker}
        /\ waiting \subseteq waiting' /\ waiting' \subseteq waiting \cup {worker[w].key}
    BY <1>3, <2>1 DEF Requeue
  <2>4. ws' = [ws EXCEPT ![o] = s]
    BY <1>13 DEF Write
  <2> QED
    BY <1>0, <1>13, <2>2, <2>3, <2>4 DEF Effect, IdleWorker, historyVars
<1>14. CASE createWorkStatus(w)
  <2> DEFINE s == [exists |-> TRUE, status |-> 0, label |-> worker[w].obj.label]
             next == [worker[w] EXCEPT !.pc = "patch", !.label = s.label, !.fresh = TRUE]
  <2>1. /\ s \in WorkStatus /\ s.exists /\ s.status = 0
        /\ next \in WorkerState /\ next.key = worker[w].key /\ next.pc = "patch"
        /\ next.gone = worker[w].gone /\ next.obj = worker[w].obj
    BY <1>0 DEF WorkStatus, WorkerState, Object, PC
  <2>2. \/ Retry(w) /\ UNCHANGED ws
        \/ /\ worker[w].pc = "create" /\ ~ws[o].exists /\ ~worker[w].gone
           /\ Write(w, s, next)
    BY <1>gone, <1>14 DEF createWorkStatus
  <2> HIDE DEF s, next
  <2> QED
    BY <1>4, <1>13, <1>14, <2>1, <2>2 DEF createWorkStatus, historyVars
<1>15. CASE patchWorkStatus(w)
  <2> DEFINE s == [ws[o] EXCEPT !.label = worker[w].obj.label]
             next == [worker[w] EXCEPT !.label = worker[w].obj.label, !.fresh = TRUE]
  <2>1. /\ ws[o] \in WorkStatus /\ worker[w] \in WorkerState
        /\ worker[w].obj.label \in Nat
    BY <1>0 DEF WorkerState, Object
  <2>2. s \in WorkStatus /\ s.exists = ws[o].exists /\ s.status = ws[o].status
    <3> HIDE DEF o
    <3> QED
      BY <2>1 DEF WorkStatus
  <2>3. /\ next \in WorkerState /\ next.key = worker[w].key /\ next.pc = worker[w].pc
        /\ next.gone = worker[w].gone /\ next.obj = worker[w].obj
    BY <2>1 DEF WorkerState
  <2>4. \/ Retry(w) /\ UNCHANGED ws
        \/ Goto(w, "status") /\ UNCHANGED <<ws, waiting>>
        \/ ws[o].exists /\ Write(w, s, next)
    BY <1>15 DEF patchWorkStatus, statusField
  <2>5. worker[w].pc = "patch" /\ ~worker[w].gone
    BY <1>gone, <1>15 DEF patchWorkStatus
  <2> HIDE DEF s, next
  <2> QED
    BY <1>4, <1>6, <1>13, <1>15, <2>2, <2>3, <2>4, <2>5 DEF patchWorkStatus, queueVars,
       historyVars, PC
<1>16. CASE updateStatus(w)
  <2> DEFINE s == [ws[o] EXCEPT !.status = worker[w].obj.ver]
  <2>1. ws[o] \in WorkStatus /\ worker[w].obj.ver \in Nat
    BY <1>0 DEF WorkerState, Object
  <2>2. s \in WorkStatus /\ s.exists = ws[o].exists /\ s.status = worker[w].obj.ver
    <3> HIDE DEF o
    <3> QED
      BY <2>1 DEF WorkStatus
  <2>3. \/ Retry(w) /\ UNCHANGED ws
        \/ ws[o].exists /\ Write(w, s, IdleWorker)
    BY <1>16 DEF updateStatus, updateAccepted
  <2> HIDE DEF s
  <2> QED
    BY <1>4, <1>13, <1>16, <2>2, <2>3, IdleType DEF updateStatus, historyVars
<1>17. ASSUME NEW k \in dirty, reconcile(w, k)
       PROVE  FALSE
  BY <1>17 DEF reconcile, Busy
<1> QED
  BY <1>7, <1>8, <1>9, <1>10, <1>11, <1>12, <1>14, <1>15, <1>16, <1>17 DEF WorkerStep

(* The effect keeps the invariant.                                         *)
LEMMA EffectInv ==
    ASSUME Inv, TypeOK', NEW w \in Workers, Effect(w)
    PROVE  Inv'
<1> USE DEF Inv
<1>1. WorkersOK'
  BY DEF WorkersOK, Effect, Same, Busy
<1>2. StoreOK'
  BY DEF StoreOK, Effect, clusterVars
<1>3. UndoubtedOK'
  BY DEF UndoubtedOK, Effect, Same, Busy, Of, clusterVars
<1>0. OverlapOK'
  BY DEF OverlapOK, OneWorkerPerObject, Effect, Same, Busy, Of
<1>4. StatusOK'
  <2> SUFFICES ASSUME NEW o \in Objects \ doubtful
               PROVE  /\ ws'[o].status <= object[o].ver
                      /\ \A v \in Workers : Busy(v)' /\ Of(v)' = o =>
                            /\ ws'[o].status <= worker'[v].obj.ver
                            /\ worker'[v].obj.ver <= object[o].ver
    BY DEF StatusOK, Effect, clusterVars
  <2>1. \A v \in Workers : Busy(v)' =>
            Busy(v) /\ Of(v)' = Of(v) /\ worker'[v].obj = worker[v].obj
    BY DEF Effect, Same, Busy, Of
  <2>2. /\ ws[o].status \in Nat /\ object[o].ver \in Nat
        /\ \A v \in Workers : worker[v].obj.ver \in Nat
    BY DEF TypeOK, WorkStatus, Object, WorkerState
  <2>3. CASE Of(w) # o
    BY <2>1, <2>3 DEF Effect, StatusOK
  <2>4. CASE Of(w) = o
    <3>1. \A v \in Workers : Busy(v) /\ Of(v) = o => v = w
      BY <2>4 DEF OverlapOK, OneWorkerPerObject, Effect
    <3>2. ws'[o].status \in {0, ws[o].status, worker[w].obj.ver}
      BY DEF Effect, NoWS
    <3>3. Busy(w)
      BY DEF Effect
    <3>4. ws[o].status <= worker[w].obj.ver /\ worker[w].obj.ver <= object[o].ver
      BY <2>4, <3>3 DEF StatusOK
    <3> QED
      BY <2>1, <2>2, <2>4, <3>1, <3>2, <3>4
  <2> QED
    BY <2>3, <2>4
<1>5. ManagedOK'
  BY DEF Effect, Same, ManagedOK
<1> QED
  BY <1>0, <1>1, <1>2, <1>3, <1>4, <1>5

(* reconcile keeps the invariant.                                          *)
LEMMA ReconcileInv ==
    ASSUME Inv, TypeOK', NEW w \in Workers, NEW k \in dirty, reconcile(w, k)
    PROVE  Inv'
<1> USE DEF Inv
<1>0. /\ UNCHANGED <<clusterVars, lister, store, events, waiting, ptrs, hubVars,
                     managed, doubtful>>
      /\ k \in Objects \X Nat /\ k \notin processing /\ dirty' = dirty \ {k}
      /\ worker \in [Workers -> WorkerState]
  BY DEF reconcile, TypeOK
<1>1. CASE UNCHANGED <<worker, overlapped>>
  BY <1>0, <1>1 DEF WorkersOK, StoreOK, UndoubtedOK, OverlapOK, OneWorkerPerObject,
     StatusOK, ManagedOK, Busy, Of, clusterVars, hubVars
<1>2. ASSUME NEW g \in BOOLEAN, NEW x \in Object, Begin(w, k, g, x),
             g => k[2] # 0 /\ x = Gone, ~g => x = object[k[1]]
      PROVE  Inv'
  <2>1. /\ \A v \in Workers \ {w} : worker'[v] = worker[v]
        /\ worker'[w].pc = "aw" /\ worker'[w].key = k
        /\ worker'[w].gone = g /\ worker'[w].obj = x
    BY <1>0, <1>2 DEF Begin, IdleWorker
  <2>2. WorkersOK'
    BY <1>0, <1>2, <2>1 DEF WorkersOK, Busy, processing
  <2>3. StoreOK'
    BY <1>0 DEF StoreOK, clusterVars
  <2>4. UndoubtedOK'
    BY <1>0, <1>2, <2>1 DEF UndoubtedOK, Busy, Of, clusterVars
  <2>5. StatusOK'
    <3>1. k[1] \notin doubtful => ~g
      BY <1>2 DEF UndoubtedOK
    <3>2. object[k[1]].ver \in Nat
      BY <1>0 DEF TypeOK, Object
    <3> QED
      BY <1>0, <1>2, <2>1, <3>1, <3>2 DEF StatusOK, Busy, Of, clusterVars, hubVars
  <2>6. ManagedOK'
    BY <1>0, <2>1 DEF ManagedOK, hubVars
  <2>7. OverlapOK'
    <3>1. ASSUME NEW v \in Workers, Of(v) = k[1]
          PROVE  Busy(v) /\ k[1] \in doubtful
      <4>1. Busy(v)
        BY <1>0, <3>1, ConstantsAssumption DEF WorkersOK, Of, NoKey
      <4>2. k[1] \notin doubtful => worker[v].key[2] = 0 /\ k[2] = 0
        BY <3>1, <4>1 DEF UndoubtedOK
      <4>3. worker[v].key \in Objects \X Nat /\ worker[v].key # k
        BY <1>0, <4>1 DEF WorkersOK, processing
      <4> QED
        BY <1>0, <3>1, <4>1, <4>2, <4>3 DEF Of
    <3>2. OneWorkerPerObject'
      BY <1>0, <1>2, <3>1 DEF OverlapOK, OneWorkerPerObject, Begin
    <3> QED
      BY <1>2, <2>1, <3>1, <3>2 DEF OverlapOK, Begin, Busy, Of
  <2> QED
    BY <2>2, <2>3, <2>4, <2>5, <2>6, <2>7
<1>3. Gone \in Object /\ object[k[1]] \in Object
  BY <1>0 DEF Gone, Object, TypeOK
<1> QED
  BY <1>1, <1>2, <1>3 DEF reconcile, Drop

(* Changes of the cluster, the hub and the queue keep the invariant.       *)
LEMMA EnvironmentInv ==
    ASSUME Inv, TypeOK',
           \/ Environment \/ startInformer
           \/ \E o \in Objects : informerAdds(o) \/ enqueueObject(o)
           \/ \E k \in waiting : AddRateLimitedFires(k)
    PROVE  Inv'
<1> USE DEF Inv
<1>1. ASSUME NEW o \in Objects, NEW v \in {0, changes + 1}, NEW l \in Labels,
             NEW own \in Owners, SetObject(o, v, l, own)
      PROVE  Inv'
  <2>0. UNCHANGED <<mw, ws, worker, managed, doubtful, overlapped, dirty, waiting, store, lister>>
    BY <1>1 DEF SetObject, hubVars, historyVars
  <2>1. WorkersOK' /\ OverlapOK' /\ ManagedOK'
    BY <2>0 DEF WorkersOK, OverlapOK, OneWorkerPerObject, ManagedOK, Busy, Of
  <2>2. StoreOK'
    BY <1>1 DEF SetObject, StoreOK, TypeOK, Object
  <2>3. UndoubtedOK'
    BY <1>1, <2>0 DEF SetObject, Notify, UndoubtedOK, TypeOK, Busy, Of
  <2>4. StatusOK'
    <3>1. /\ \A x \in Objects : object[x].ver \in Nat /\ ws[x].status \in Nat
          /\ \A w \in Workers : worker[w].obj.ver \in Nat
          /\ changes \in Nat
      BY DEF TypeOK, Object, WorkStatus, WorkerState
    <3>2. \A x \in Objects : object[x].ver <= object'[x].ver
      BY <1>1, <3>1 DEF SetObject, StoreOK, TypeOK
    <3>3. \A x \in Objects : object'[x].ver \in Nat
      BY DEF TypeOK, Object
    <3> QED
      BY <2>0, <3>1, <3>2, <3>3 DEF StatusOK, Busy, Of
  <2> QED
    BY <2>1, <2>2, <2>3, <2>4
<1>2. ASSUME NEW o \in Objects, DeleteObject(o)
      PROVE  Inv'
  <2>0. /\ UNCHANGED <<mw, ws, worker, managed, overlapped, dirty, waiting, lister>>
        /\ doubtful' = doubtful \cup {o}
    BY <1>2 DEF DeleteObject, hubVars
  <2>1. WorkersOK' /\ OverlapOK' /\ ManagedOK'
    BY <2>0 DEF WorkersOK, OverlapOK, OneWorkerPerObject, ManagedOK, Busy, Of
  <2>2. StoreOK'
    BY <1>2 DEF DeleteObject, StoreOK, TypeOK, Object, Gone
  <2>3. UndoubtedOK'
    BY <1>2, <2>0 DEF DeleteObject, Notify, UndoubtedOK, TypeOK, Busy, Of
  <2>4. StatusOK'
    BY <1>2, <2>0 DEF DeleteObject, StatusOK, Busy, Of, TypeOK
  <2> QED
    BY <2>1, <2>2, <2>3, <2>4
<1>3. ASSUME NEW o \in Objects, GarbageCollect(o)
      PROVE  Inv'
  <2>1. /\ \A w \in Workers : Same(w)
        /\ \A x \in Objects : ws'[x] = ws[x] \/ ws'[x] = NoWS
        /\ UNCHANGED <<clusterVars, queueVars, mw, managed, doubtful, overlapped>>
    BY <1>3, CopiesType DEF GarbageCollect, Same, TypeOK, historyVars
  <2>2. WorkersOK' /\ StoreOK' /\ UndoubtedOK' /\ OverlapOK'
    BY <2>1 DEF Same, WorkersOK, StoreOK, UndoubtedOK, OverlapOK, OneWorkerPerObject,
       Busy, Of, clusterVars, queueVars
  <2>3. StatusOK'
    BY <2>1 DEF Same, StatusOK, Busy, Of, clusterVars, NoWS, TypeOK, Object, WorkerState
  <2>4. ManagedOK'
    BY <2>1 DEF Same, ManagedOK
  <2> QED
    BY <2>2, <2>3, <2>4
<1>4. CASE DeleteManifestWork \/ RemoveAppliedManifestWork \/ RelabelManifestWork
  <2>1. /\ UNCHANGED <<object, queueVars, ws, worker, doubtful, overlapped>>
        /\ changes' \in {changes, changes + 1}
        /\ \/ managed' = managed /\ mw' \in {mw, "absent"}
           \/ managed'
    BY <1>4 DEF DeleteManifestWork, RemoveAppliedManifestWork, RelabelManifestWork,
       clusterVars, queueVars, hubVars, historyVars
  <2>2. WorkersOK' /\ UndoubtedOK' /\ OverlapOK' /\ StatusOK' /\ ManagedOK'
    BY <2>1 DEF WorkersOK, UndoubtedOK, OverlapOK, OneWorkerPerObject, StatusOK, ManagedOK,
       Busy, Of, queueVars
  <2>3. StoreOK'
    BY <2>1 DEF StoreOK, TypeOK, Object, queueVars
  <2> QED
    BY <2>2, <2>3
<1>5. ASSUME \/ stopInformer /\ changes' = changes + 1
             \/ startInformer \/ \E o \in Objects : informerAdds(o)
      PROVE  Inv'
  <2>1. /\ UNCHANGED <<object, dirty, waiting, hubVars, worker, managed, overlapped>>
        /\ changes' \in {changes, changes + 1} /\ doubtful \subseteq doubtful'
    BY <1>5 DEF stopInformer, startInformer, informerAdds, clusterVars, historyVars
  <2>2. WorkersOK' /\ OverlapOK' /\ StatusOK' /\ ManagedOK'
    BY <2>1 DEF WorkersOK, OverlapOK, OneWorkerPerObject, StatusOK, ManagedOK, Busy, Of, hubVars
  <2>3. StoreOK'
    BY <1>5, <2>1 DEF StoreOK, stopInformer, startInformer, informerAdds, TypeOK, Object
  <2>4. \A o \in Objects \ doubtful' : events'[o] > 0 => o \in store'
    BY <1>5, <2>1 DEF UndoubtedOK, StoreOK, stopInformer, startInformer, informerAdds, TypeOK,
       historyVars
  <2>5. UndoubtedOK'
    BY <2>1, <2>4 DEF UndoubtedOK, Busy, Of
  <2> QED
    BY <2>2, <2>3, <2>5
<1>6. ASSUME \/ \E o \in Objects : enqueueObject(o)
             \/ \E k \in waiting : AddRateLimitedFires(k)
      PROVE  Inv'
  <2>1. UNCHANGED <<clusterVars, lister, store, hubVars, worker, managed, doubtful, overlapped>>
    BY <1>6 DEF enqueueObject, AddRateLimitedFires, historyVars
  <2>2. WorkersOK' /\ StoreOK' /\ OverlapOK' /\ StatusOK' /\ ManagedOK'
    BY <2>1 DEF WorkersOK, StoreOK, OverlapOK, OneWorkerPerObject, StatusOK, ManagedOK,
       Busy, Of, clusterVars, hubVars
  <2>3. \A o \in Objects \ doubtful : events'[o] > 0 => o \in store'
    BY <1>6 DEF UndoubtedOK, enqueueObject, AddRateLimitedFires, TypeOK
  <2>4. \A k \in dirty' \cup waiting' : k[1] \notin doubtful => k[2] = 0
    BY <1>6 DEF UndoubtedOK, enqueueObject, AddRateLimitedFires
  <2>5. UndoubtedOK'
    BY <2>1, <2>3, <2>4 DEF UndoubtedOK, Busy, Of
  <2> QED
    BY <2>2, <2>5
<1>7. CASE Restart
  <2>1. /\ UNCHANGED <<clusterVars, mw, ws, managed, doubtful>>
        /\ store' = {} /\ dirty' = {} /\ waiting' = {} /\ overlapped' = {}
        /\ events' = [o \in Objects |-> 0]
        /\ \A w \in Workers : worker'[w].pc = "idle" /\ worker'[w].key = NoKey
    BY <1>7 DEF Restart, IdleWorker
  <2>2. WorkersOK' /\ StoreOK' /\ UndoubtedOK' /\ OverlapOK'
    BY <2>1 DEF WorkersOK, StoreOK, UndoubtedOK, OverlapOK, OneWorkerPerObject, Busy, clusterVars
  <2>3. StatusOK' /\ ManagedOK'
    BY <2>1 DEF StatusOK, ManagedOK, Busy, clusterVars
  <2> QED
    BY <2>2, <2>3
<1> QED
  BY <1>1, <1>2, <1>3, <1>4, <1>5, <1>6, <1>7 DEF Environment

(* Every step keeps the invariant.                                         *)
LEMMA NextInv == Inv /\ [Next]_vars => Inv'
<1> SUFFICES ASSUME Inv, [Next]_vars
             PROVE  Inv'
  OBVIOUS
<1>1. CASE UNCHANGED vars
  BY <1>1 DEF vars, clusterVars, queueVars, hubVars, historyVars, Inv, TypeOK, WorkersOK,
     StoreOK, UndoubtedOK, OverlapOK, OneWorkerPerObject, StatusOK, ManagedOK, Busy, Of
<1>2. CASE Next
  <2>1. TypeOK'
    BY <1>2, TypeStep DEF Inv
  <2>2. ASSUME NEW w \in Workers, WorkerStep(w) \/ hubRequestFails(w)
        PROVE  Inv'
    <3>1. CASE Busy(w)
      BY <2>1, <2>2, <3>1, WorkerEffect, EffectInv DEF Inv
    <3>2. CASE ~Busy(w)
      BY <2>1, <2>2, <3>2, ReconcileInv DEF Busy, WorkerStep, GetAppliedManifestWork,
         deleteGetWorkStatus, deleteWorkStatus, getWorkStatus, GetManifestWork,
         createWorkStatus, patchWorkStatus, updateStatus, hubRequestFails
    <3> QED
      BY <3>1, <3>2
  <2> QED
    BY <1>2, <2>1, <2>2, EnvironmentInv DEF Next
<1> QED
  BY <1>1, <1>2

-----------------------------------------------------------------------------
(* Every variable stays in its type, in particular every key a worker puts *)
(* back on the queue is the key of a workload object.                      *)
THEOREM TypeCorrect == Spec => []TypeOK
  BY InitInv, NextInv, PTL DEF Spec, Inv

(* However many workers there are, two are at one object only after it was *)
(* deleted or its informer stopped with a notification pending.            *)
THEOREM WorkersKeptApart == Spec => []OneWorkerPerObject
  BY InitInv, NextInv, PTL DEF Spec, Inv, OverlapOK

(* Unless an object was deleted or its informer stopped with a             *)
(* notification pending, no step of any number of workers moves its        *)
(* reported status backwards or removes it.                                *)
THEOREM NeverRegresses == Spec => StatusNeverRegresses
<1> DEFINE Step == \A o \in Objects \ doubtful' :
               ws[o].exists /\ mw # "absent" =>
                   ws'[o].exists /\ ws'[o].status >= ws[o].status
<1>1. Inv /\ [Next]_vars => [Step]_vars
  <2> SUFFICES ASSUME Inv, Next, NEW o \in Objects \ doubtful', ws[o].exists, mw # "absent"
               PROVE  ws'[o].exists /\ ws'[o].status >= ws[o].status
    OBVIOUS
  <2>1. ws[o].status \in Nat
    BY DEF Inv, TypeOK, WorkStatus
  <2>2. CASE ws'[o] = ws[o]
    BY <2>1, <2>2
  <2>3. ASSUME NEW w \in Workers, Busy(w), WorkerStep(w) \/ hubRequestFails(w)
        PROVE  ws'[o].exists /\ ws'[o].status >= ws[o].status
    <3>1. Effect(w)
      BY <2>3, WorkerEffect DEF Inv
    <3>2. o \notin doubtful
      BY <3>1 DEF Effect
    <3>3. Of(w) = o => worker[w].pc # "delete"
      BY <2>3, <3>2 DEF Inv, WorkersOK, UndoubtedOK
    <3>4. Of(w) = o => ws[o].status <= worker[w].obj.ver /\ worker[w].obj.ver \in Nat
      BY <2>3, <3>2 DEF Inv, StatusOK, TypeOK, WorkerState, Object
    <3> QED
      BY <2>1, <2>2, <3>1, <3>3, <3>4 DEF Effect
  <2>4. ASSUME NEW w \in Workers, ~Busy(w), WorkerStep(w) \/ hubRequestFails(w)
        PROVE  ws' = ws
    BY <2>4 DEF Busy, WorkerStep, reconcile, GetAppliedManifestWork,
       deleteGetWorkStatus, deleteWorkStatus, getWorkStatus, GetManifestWork,
       createWorkStatus, patchWorkStatus, updateStatus, hubRequestFails, hubVars
  <2>5. CASE ~\E w \in Workers : WorkerStep(w) \/ hubRequestFails(w)
    <3>1. ws' = ws
      BY <2>5 DEF Next, Environment, SetObject, DeleteObject, GarbageCollect,
         DeleteManifestWork, RelabelManifestWork, RemoveAppliedManifestWork,
         stopInformer, startInformer,
         informerAdds, enqueueObject, AddRateLimitedFires, Restart, hubVars
    <3> QED
      BY <2>2, <3>1
  <2> QED
    BY <2>2, <2>3, <2>4, <2>5
<1> QED
  BY <1>1, InitInv, NextInv, PTL DEF Spec, StatusNeverRegresses

-----------------------------------------------------------------------------
(* A step that does not write to the hub is a step of the mirrored objects *)
(* alone, or of none.                                                      *)
LEMMA NoWriteMirrors ==
    ASSUME UNCHANGED <<ws, mw, managed>>, doubtful \subseteq doubtful',
           \A o \in Objects \ doubtful' : object[o].ver <= object'[o].ver
    PROVE  Mirror!ObjectsChange
  BY DEF Mirror!ObjectsChange

(* A write to the WorkStatus of one object, seen in the mirror.            *)
LEMMA WriteMirrors ==
    ASSUME NEW o \in Objects, NEW s, UNCHANGED <<clusterVars, mw, managed, doubtful>>,
           ws \in [Objects -> WorkStatus], ws' \in [Objects -> WorkStatus],
           \A x \in Objects : x # o => ws'[x] = ws[x],
           s = IF ws'[o].exists THEN {ws'[o].status} ELSE {}
    PROVE  Mirror!Show(o, s)
<1> DEFINE Shown == [x \in Objects |-> IF ws[x].exists THEN {ws[x].status} ELSE {}]
<1>1. Shown' = [Shown EXCEPT ![o] = s]
  OBVIOUS
<1> QED
  BY <1>1 DEF Mirror!Show, clusterVars

(* What a worker does implements a step of the mirror.                     *)
LEMMA EffectMirrors ==
    ASSUME Inv, TypeOK', NEW w \in Workers, Effect(w)
    PROVE  Mirror!Next
<1>1. ws \in [Objects -> WorkStatus] /\ ws' \in [Objects -> WorkStatus] /\ Of(w) \in Objects
  BY ConstantsAssumption DEF Inv, TypeOK, WorkersOK, Effect, Of
<1>2. UNCHANGED <<clusterVars, mw, managed, doubtful>> /\ Busy(w)
  BY DEF Effect
<1>3. PICK o \in Objects : o = Of(w)
  BY <1>1
<1>4. CASE ws' = ws
  <2>1. \A x \in Objects : object[x].ver \in Nat
    BY DEF Inv, TypeOK, Object
  <2>2. Mirror!ObjectsChange
    BY <1>2, <1>4, <2>1, NoWriteMirrors DEF clusterVars
  <2> QED
    BY <2>2 DEF Mirror!Next
<1>5. CASE ws' # ws
  <2>1. ws'[o] # ws[o] /\ \A x \in Objects : x # o => ws'[x] = ws[x]
    BY <1>1, <1>3, <1>5 DEF Effect
  <2>2. \A s : s = (IF ws'[o].exists THEN {ws'[o].status} ELSE {}) => Mirror!Show(o, s)
    BY <1>1, <1>2, <2>1, WriteMirrors
  <2>3. \/ worker[w].pc = "delete" /\ ws'[o] = NoWS
        \/ worker[w].pc = "create" /\ ~ws[o].exists /\ ws'[o].exists /\ ws'[o].status = 0
        \/ /\ ws[o].exists /\ ws'[o].exists
           /\ ws'[o].status \in {ws[o].status, worker[w].obj.ver}
    BY <2>1 DEF Effect
  <2>4. CASE worker[w].pc = "delete" /\ ws'[o] = NoWS
    <3>1. o \in doubtful
      BY <1>2, <1>3, <2>4 DEF Inv, WorkersOK, UndoubtedOK
    <3>2. Mirror!Show(o, {})
      BY <2>2, <2>4 DEF NoWS
    <3>3. Mirror!Withdraw(o)
      BY <3>1, <3>2 DEF Mirror!Withdraw
    <3> QED
      BY <3>3 DEF Mirror!Next
  <2>5. CASE worker[w].pc = "create" /\ ~ws[o].exists /\ ws'[o].exists /\ ws'[o].status = 0
    <3>1. Mirror!Show(o, {0})
      BY <2>2, <2>5
    <3>2. Mirror!Create(o)
      BY <2>5, <3>1 DEF Mirror!Create, Inv, ManagedOK
    <3> QED
      BY <3>2 DEF Mirror!Next
  <2>6. CASE /\ ws[o].exists /\ ws'[o].exists
             /\ ws'[o].status \in {ws[o].status, worker[w].obj.ver}
    <3>1. PICK v : v = ws'[o].status
      OBVIOUS
    <3>2. /\ ws[o].status \in Nat /\ object[o].ver \in Nat /\ worker[w].obj.ver \in Nat
      BY <1>1 DEF Inv, TypeOK, WorkStatus, Object, WorkerState
    <3>3. o \notin doubtful => ws[o].status <= worker[w].obj.ver /\ worker[w].obj.ver <= object[o].ver
      BY <1>2, <1>3 DEF Inv, StatusOK
    <3>4. o \notin doubtful => v <= object[o].ver /\ ws[o].status <= v
      BY <2>6, <3>1, <3>2, <3>3
    <3>5. Mirror!Show(o, {v})
      BY <2>2, <2>6, <3>1
    <3>6. Mirror!Update(o, v)
      BY <2>6, <3>4, <3>5 DEF Mirror!Update
    <3> QED
      BY <2>6, <3>1, <3>6 DEF Mirror!Next
  <2> QED
    BY <2>3, <2>4, <2>5, <2>6
<1> QED
  BY <1>4, <1>5

(* Every step of the agent and its environment is one of the mirror.       *)
LEMMA NextMirrors ==
    ASSUME Inv, TypeOK', Next
    PROVE  Mirror!Next
<1>1. \A o \in Objects : object[o].ver \in Nat
  BY DEF Inv, TypeOK, Object
<1>2. ASSUME UNCHANGED <<ws, mw, object, doubtful, managed>>
      PROVE  Mirror!Next
  BY <1>1, <1>2, NoWriteMirrors DEF Mirror!Next
<1>3. ASSUME NEW o \in Objects, NEW v \in {0, changes + 1}, NEW l \in Labels,
             NEW own \in Owners, SetObject(o, v, l, own)
      PROVE  Mirror!Next
  <2>1. \A x \in Objects : object[x].ver <= object'[x].ver
    BY <1>1, <1>3 DEF SetObject, Inv, StoreOK, TypeOK
  <2> QED
    BY <1>3, <2>1, NoWriteMirrors DEF SetObject, hubVars, historyVars, Mirror!Next
<1>4. ASSUME NEW o \in Objects, DeleteObject(o)
      PROVE  Mirror!Next
  <2>1. \A x \in Objects \ doubtful' : object[x].ver <= object'[x].ver
    BY <1>1, <1>4 DEF DeleteObject, Inv, TypeOK
  <2> QED
    BY <1>4, <2>1, NoWriteMirrors DEF DeleteObject, hubVars, Mirror!Next
<1>5. ASSUME NEW o \in Objects, GarbageCollect(o)
      PROVE  Mirror!Next
  <2>1. ~ws'[o].exists /\ mw = "absent"
    BY <1>5 DEF GarbageCollect, Inv, TypeOK, NoWS
  <2>2. Mirror!Show(o, {})
    BY <1>5, <2>1, WriteMirrors DEF GarbageCollect, Inv, TypeOK, historyVars
  <2>3. Mirror!Withdraw(o)
    BY <2>1, <2>2 DEF Mirror!Withdraw
  <2> QED
    BY <2>3 DEF Mirror!Next
<1>6. CASE DeleteManifestWork
  <2>1. Mirror!WorkGone
    BY <1>6 DEF DeleteManifestWork, Mirror!WorkGone, clusterVars, historyVars
  <2> QED
    BY <2>1 DEF Mirror!Next
<1>10. CASE RelabelManifestWork
  <2>1. Mirror!Relabel
    BY <1>10 DEF RelabelManifestWork, Mirror!Relabel
  <2> QED
    BY <2>1 DEF Mirror!Next
<1>11. CASE stopInformer
  <2>1. UNCHANGED <<ws, mw, managed, object>> /\ doubtful \subseteq doubtful'
    BY <1>11 DEF stopInformer, hubVars
  <2> QED
    BY <1>1, <2>1, NoWriteMirrors DEF Mirror!Next
<1>7. CASE Environment
  BY <1>2, <1>3, <1>4, <1>5, <1>6, <1>7, <1>10, <1>11 DEF Environment,
     RemoveAppliedManifestWork, Restart, clusterVars, hubVars, historyVars
<1>8. ASSUME NEW w \in Workers, WorkerStep(w) \/ hubRequestFails(w)
      PROVE  Mirror!Next
  <2>1. CASE Busy(w)
    BY <1>8, <2>1, WorkerEffect, EffectMirrors DEF Inv
  <2>2. CASE ~Busy(w)
    <3>1. PICK k \in dirty : reconcile(w, k)
      BY <1>8, <2>2 DEF Busy, WorkerStep, GetAppliedManifestWork, deleteGetWorkStatus,
         deleteWorkStatus, getWorkStatus, GetManifestWork, createWorkStatus,
         patchWorkStatus, updateStatus, hubRequestFails
    <3> QED
      BY <1>2, <3>1 DEF reconcile, clusterVars, hubVars
  <2> QED
    BY <2>1, <2>2
<1>9. CASE \/ startInformer
           \/ \E o \in Objects : informerAdds(o) \/ enqueueObject(o)
           \/ \E k \in waiting : AddRateLimitedFires(k)
  BY <1>2, <1>9 DEF startInformer, informerAdds, enqueueObject, AddRateLimitedFires,
     clusterVars, hubVars, historyVars
<1> QED
  BY <1>7, <1>8, <1>9 DEF Next

(* Whatever the number of objects and workers, and whatever is retried,    *)
(* lost or restarted, the agent and the hub implement StatusMirror.        *)
THEOREM ImplementsMirror == Spec => MirrorsStatus
<1>1. Init => Mirror!Init
  BY DEF Init, Mirror!Init, Gone, NoWS
<1>2. Inv /\ Inv' /\ [Next]_vars => [Mirror!Next]_(Mirror!mirrorVars)
  <2>1. CASE UNCHANGED vars
    BY <2>1 DEF vars, clusterVars, hubVars, historyVars, Mirror!mirrorVars
  <2>2. ASSUME Inv, Inv', Next
        PROVE  Mirror!Next
    BY <2>2, NextMirrors DEF Inv
  <2> QED
    BY <2>1, <2>2
<1> QED
  BY <1>1, <1>2, InitInv, NextInv, PTL DEF Spec, Mirror!Spec, MirrorsStatus
=============================================================================
