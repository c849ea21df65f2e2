--------------------------- MODULE ReportingProofs ---------------------------
(***************************************************************************)
(* That WorkStatusSync loses no status, and leaves no WorkStatus behind,   *)
(* without one of the reasons its properties name.                         *)
(***************************************************************************)
EXTENDS SyncProofs

Alone(o)   == o \notin overlapped

(* Objects the informer sees and the agent has to report.                  *)
Watched(o) ==
    /\ o \in store /\ object[o].owned
    /\ Alone(o) /\ o \notin skipped
    /\ mw # "absent"
Queued(o)  == events[o] > 0 \/ \E k \in dirty : k[1] = o
Delayed(o) == \E k \in waiting : k[1] = o

(* What a worker believes of the WorkStatus it goes on to write is true.   *)
CopyOK(w) ==
    /\ worker[w].pc \in {"patch", "status"} => ws[Of(w)].exists
    /\ worker[w].pc = "patch" => ws[Of(w)].label = worker[w].label
    /\ worker[w].pc = "status" => ~Differs(ws[Of(w)].label, worker[w].obj)

CopiesOK == mw # "absent" => \A w \in Workers :
    Busy(w) /\ Alone(Of(w)) => CopyOK(w)

(* What is not reported yet is on its way: as a notification, as a key in  *)
(* the queue or in delay, or in the hands of a worker; and a worker with   *)
(* an old copy of the object will be followed by another.                  *)
OnItsWay == \A o \in Objects : Watched(o) =>
    /\ \/ Reported(o)
       \/ Queued(o)
       \/ Delayed(o)
       \/ \E w \in Workers : Busy(w) /\ Of(w) = o
    /\ \A w \in Workers : Busy(w) /\ Of(w) = o =>
          Queued(o) \/ worker[w].obj = object[o]

(* A worker has such an object to itself.                                  *)
LEMMA OneHolder ==
    ASSUME Inv, NEW w \in Workers, Busy(w), Alone(Of(w))
    PROVE  \A v \in Workers : Busy(v) /\ Of(v) = Of(w) => v = w
  BY DEF Inv, OverlapOK, Alone

(* How such a worker goes on, or comes to an end: the key is retried, the  *)
(* worker saw the object gone or the ManifestWork without a label, or what *)
(* its copy of the object says is reported.                                *)
Progress(w) ==
    \/ worker'[w].pc = "idle" /\ worker[w].key \in waiting'
    \/ worker'[w].pc = "idle" /\ worker[w].gone
    \/ worker'[w].pc = "idle" /\ Of(w) \in skipped'
    \/ /\ worker'[w].pc = "idle"
       /\ ws'[Of(w)].exists /\ ws'[Of(w)].status = worker[w].obj.ver
       /\ ~Differs(ws'[Of(w)].label, worker[w].obj)
    \/ worker'[w].pc # "idle" /\ worker'[w].key = worker[w].key /\ CopyOK(w)'

LEMMA WorkerProgress ==
    ASSUME Inv, TypeOK', NEW w \in Workers, Busy(w), mw # "absent", CopyOK(w),
           WorkerStep(w) \/ hubRequestFails(w)
    PROVE  Progress(w)
<1> DEFINE o == Of(w)
<1>0. /\ worker \in [Workers -> WorkerState] /\ worker[w] \in WorkerState
      /\ ws \in [Objects -> WorkStatus] /\ o \in Objects /\ ws[o] \in WorkStatus
  BY ConstantsAssumption DEF Inv, TypeOK, WorkersOK, Of
<1>2. ASSUME Retry(w) PROVE Progress(w)
  BY <1>0, <1>2 DEF Retry, Requeue, Done, IdleWorker, Progress
<1>3. ASSUME NEW pc \in {"delGet", "delete", "get", "create"}, Goto(w, pc)
      PROVE  Progress(w)
  <2>1. worker'[w] = [worker[w] EXCEPT !.pc = pc]
    BY <1>0, <1>3 DEF Goto
  <2>2. worker'[w].pc = pc /\ worker'[w].key = worker[w].key
    BY <1>0, <2>1 DEF WorkerState
  <2> QED
    BY <2>2 DEF Progress, CopyOK
<1>4. CASE GetAppliedManifestWork(w)
  BY <1>2, <1>3, <1>4 DEF GetAppliedManifestWork
<1>5. CASE hubRequestFails(w)
  BY <1>2, <1>5 DEF hubRequestFails
<1>6. CASE deleteGetWorkStatus(w)
  BY <1>3, <1>6 DEF deleteGetWorkStatus
<1>1. CASE deleteWorkStatus(w)
  <2>1. worker[w].gone
    BY <1>1 DEF deleteWorkStatus, Inv, WorkersOK
  <2>2. worker'[w] = IdleWorker
    BY <1>0, <1>1, CopiesType DEF deleteWorkStatus, Done, Inv
  <2> QED
    BY <2>1, <2>2 DEF Progress, IdleWorker
<1>7. CASE getWorkStatus(w)
  <2> DEFINE found == [worker[w] EXCEPT !.pc = "patch", !.label = ws[o].label, !.fresh = TRUE]
             missing == [worker[w] EXCEPT !.pc = "getMW"]
  <2>1. /\ found.pc = "patch" /\ found.key = worker[w].key /\ found.label = ws[o].label
        /\ missing.pc = "getMW" /\ missing.key = worker[w].key
    BY <1>0 DEF WorkerState
  <2>2. worker'[w] = (IF ws[o].exists THEN found ELSE missing) /\ ws' = ws
    BY <1>0, <1>7 DEF getWorkStatus, hubVars
  <2> HIDE DEF found, missing
  <2> QED
    BY <2>1, <2>2 DEF Progress, CopyOK, Of
<1>8. CASE GetManifestWork(w)
  <2>1. CASE mw = "plain" /\ Done(w) /\ skipped' = skipped \cup {o}
    BY <1>0, <2>1 DEF Done, IdleWorker, Progress
  <2> QED
    BY <1>3, <1>8, <2>1 DEF GetManifestWork, Inv, TypeOK
<1>9. ASSUME NEW s \in WorkStatus, NEW next \in WorkerState, Write(w, s, next)
      PROVE  /\ ws'[o] = s
             /\ worker'[w] = next \/ (worker'[w].pc = "idle" /\ worker[w].key \in waiting')
  BY <1>0, <1>9, CopiesType DEF Write, Requeue, IdleWorker, Inv
<1>10. CASE createWorkStatus(w)
  <2> DEFINE s == [exists |-> TRUE, status |-> 0, label |-> worker[w].obj.label]
             next == [worker[w] EXCEPT !.pc = "patch", !.label = s.label, !.fresh = TRUE]
  <2>1. s \in WorkStatus /\ s.exists /\ s.label \in Nat
    BY <1>0 DEF WorkStatus, WorkerState, Object
  <2>2. Retry(w) \/ Write(w, s, next)
    BY <1>10 DEF createWorkStatus
  <2> HIDE DEF s
  <2>3. /\ next \in WorkerState /\ next.pc = "patch" /\ next.key = worker[w].key
        /\ next.label = s.label
    BY <1>0, <2>1 DEF WorkerState, PC
  <2> HIDE DEF next
  <2> QED
    BY <1>2, <1>9, <2>1, <2>2, <2>3 DEF Progress, CopyOK, Of
<1>11. CASE patchWorkStatus(w)
  <2> DEFINE l == worker[w].obj.label
             s == [ws[o] EXCEPT !.label = l]
             next == [worker[w] EXCEPT !.label = l, !.fresh = TRUE]
  <2>0. l \in Nat
    BY <1>0 DEF WorkerState, Object
  <2>3. /\ worker[w].pc = "patch"
        /\ \/ Retry(w)
           \/ ~NeedsPatch(w) /\ Goto(w, "status") /\ UNCHANGED ws
           \/ ws[o].exists /\ Write(w, s, next)
    BY <1>11 DEF patchWorkStatus, statusField
  <2> HIDE DEF l
  <2>1. s \in WorkStatus /\ s.exists = ws[o].exists /\ s.label = l
    <3> HIDE DEF o
    <3> QED
      BY <1>0, <2>0 DEF WorkStatus
  <2>2. /\ next \in WorkerState /\ next.pc = worker[w].pc /\ next.key = worker[w].key
        /\ next.label = l
    BY <1>0, <2>0 DEF WorkerState
  <2> HIDE DEF s, next
  <2>4. CASE ~NeedsPatch(w) /\ Goto(w, "status") /\ UNCHANGED ws
    <3>1. worker'[w] = [worker[w] EXCEPT !.pc = "status"]
      BY <1>0, <2>4 DEF Goto
    <3>2. /\ worker'[w].pc = "status" /\ worker'[w].key = worker[w].key
          /\ worker'[w].obj = worker[w].obj
      BY <1>0, <3>1 DEF WorkerState
    <3> QED
      BY <2>3, <2>4, <3>2 DEF Progress, CopyOK, Of, NeedsPatch
  <2>5. CASE ws[o].exists /\ Write(w, s, next)
    BY <1>9, <2>1, <2>2, <2>3, <2>5 DEF Progress, CopyOK, Of
  <2> QED
    BY <1>2, <2>3, <2>4, <2>5
<1>12. CASE updateStatus(w)
  <2> DEFINE s == [ws[o] EXCEPT !.status = worker[w].obj.ver]
  <2>1. worker[w].obj.ver \in Nat
    BY <1>0 DEF WorkerState, Object
  <2>2. /\ s \in WorkStatus /\ s.exists = ws[o].exists /\ s.status = worker[w].obj.ver
        /\ s.label = ws[o].label
    <3> HIDE DEF o
    <3> QED
      BY <1>0, <2>1 DEF WorkStatus
  <2>3. worker[w].pc = "status" /\ (Retry(w) \/ Write(w, s, IdleWorker))
    BY <1>12 DEF updateStatus
  <2>4. IdleWorker.pc = "idle"
    BY DEF IdleWorker
  <2> HIDE DEF s
  <2> QED
    BY <1>2, <1>9, <2>2, <2>3, <2>4, IdleType DEF Progress, CopyOK
<1>13. ASSUME NEW k \in dirty, reconcile(w, k)
       PROVE  FALSE
  BY <1>13 DEF reconcile, Busy
<1> QED
  BY <1>1, <1>4, <1>5, <1>6, <1>7, <1>8, <1>10, <1>11, <1>12, <1>13 DEF WorkerStep

(* A step of a worker that holds a key keeps both.                         *)
LEMMA EffectOnItsWay ==
    ASSUME Inv, CopiesOK, OnItsWay, NEW w \in Workers, Effect(w),
           mw # "absent" /\ Alone(Of(w)) => Progress(w)
    PROVE  CopiesOK' /\ OnItsWay'
<1>1. Busy(w)
  BY DEF Effect
<1>2. /\ UNCHANGED <<object, overlapped, store, events, dirty, mw>>
      /\ \A v \in Workers \ {w} : Same(v)
      /\ \A o \in Objects : o # Of(w) => ws'[o] = ws[o]
      /\ waiting \subseteq waiting' /\ skipped \subseteq skipped'
  BY DEF Effect, clusterVars
<1>3. /\ \A v \in Workers : Busy(v)' =>
            Busy(v) /\ Of(v)' = Of(v) /\ worker'[v].obj = worker[v].obj
      /\ Of(w) \in Objects
  BY <1>1 DEF Effect, Same, Busy, Of, Inv, WorkersOK
<1>5. ASSUME NEW v \in Workers \ {w}, Busy(v), Alone(Of(v))
      PROVE  Of(v) # Of(w) /\ Of(v) \in Objects
  BY <1>1, <1>5, OneHolder DEF Inv, WorkersOK, Of
<1>6. CopiesOK'
  <2> SUFFICES ASSUME mw # "absent", NEW v \in Workers, Busy(v)', Alone(Of(v)')
               PROVE  CopyOK(v)'
    BY <1>2 DEF CopiesOK, Alone
  <2>1. CASE v = w
    BY <1>3, <2>1 DEF Progress, Busy
  <2>2. CASE v # w
    <3>1. CopyOK(v) /\ Same(v) /\ ws'[Of(v)] = ws[Of(v)]
      BY <1>2, <1>3, <1>5, <2>2 DEF CopiesOK
    <3> QED
      BY <3>1 DEF CopyOK, Same, Of
  <2> QED
    BY <2>1, <2>2
<1>7. OnItsWay'
  <2> SUFFICES ASSUME NEW o \in Objects, Watched(o), o \notin skipped'
               PROVE  /\ \/ Reported(o)' \/ Queued(o) \/ Delayed(o)'
                         \/ \E v \in Workers : Busy(v)' /\ Of(v)' = o
                      /\ \A v \in Workers : Busy(v)' /\ Of(v)' = o =>
                            Queued(o) \/ worker'[v].obj = object[o]
    BY <1>2 DEF OnItsWay, Watched, Alone, Queued
  <2>1. \A v \in Workers : Busy(v)' /\ Of(v)' = o => Queued(o) \/ worker'[v].obj = object[o]
    BY <1>3 DEF OnItsWay
  <2>2. CASE Of(w) = o
    <3>1. Progress(w)
      BY <2>2 DEF Watched
    <3>2. Queued(o) \/ (worker[w].obj = object[o] /\ ~worker[w].gone)
      BY <1>1, <2>2 DEF OnItsWay, Watched, Inv, WorkersOK, StoreOK, Gone
    <3>3. CASE worker'[w].pc # "idle"
      BY <1>3, <2>1, <2>2, <3>3 DEF Busy
    <3>4. CASE worker'[w].pc = "idle"
      BY <1>2, <2>1, <2>2, <3>1, <3>2, <3>4 DEF Progress, Reported, Delayed, Of
    <3> QED
      BY <3>3, <3>4
  <2>3. CASE Of(w) # o
    <3>1. Reported(o) => Reported(o)'
      BY <1>2, <2>3 DEF Reported
    <3>2. ASSUME NEW v \in Workers, Busy(v), Of(v) = o
          PROVE  Busy(v)' /\ Of(v)' = o
      BY <1>2, <2>3, <3>2 DEF Same, Busy, Of
    <3> QED
      BY <1>2, <2>1, <3>1, <3>2 DEF OnItsWay, Delayed
  <2> QED
    BY <2>2, <2>3
<1> QED
  BY <1>6, <1>7

LEMMA WorkerOnItsWay ==
    ASSUME Inv, TypeOK', CopiesOK, OnItsWay, NEW w \in Workers, Busy(w),
           WorkerStep(w) \/ hubRequestFails(w)
    PROVE  CopiesOK' /\ OnItsWay'
<1>1. Effect(w)
  BY WorkerEffect DEF Inv
<1>2. mw # "absent" /\ Alone(Of(w)) => Progress(w)
  BY WorkerProgress DEF CopiesOK
<1> QED
  BY <1>1, <1>2, EffectOnItsWay

(* So does reconcile.                                                      *)
LEMMA ReconcileOnItsWay ==
    ASSUME Inv, CopiesOK, OnItsWay, NEW w \in Workers, NEW k \in dirty, reconcile(w, k)
    PROVE  CopiesOK' /\ OnItsWay'
<1>0. /\ UNCHANGED <<object, store, events, waiting, mw, ws>>
      /\ overlapped \subseteq overlapped' /\ skipped \ {k[1]} \subseteq skipped'
      /\ k \in Objects \X Nat /\ k \notin processing /\ dirty' = dirty \ {k}
      /\ worker \in [Workers -> WorkerState] /\ ~Busy(w)
  BY DEF reconcile, Begin, Drop, Inv, TypeOK, clusterVars, hubVars, Busy
<1>1. \A v \in Workers \ {w} : worker'[v] = worker[v]
  BY <1>0 DEF reconcile, Begin, Drop
<1>2. \/ worker' = worker
      \/ worker'[w].pc = "aw" /\ worker'[w].key = k
  <2>1. ASSUME NEW gone, NEW obj, Begin(w, k, gone, obj)
        PROVE  worker'[w].pc = "aw" /\ worker'[w].key = k
    <3>1. worker'[w] = [IdleWorker EXCEPT !.pc = "aw", !.key = k, !.gone = gone,
                                          !.obj = obj]
      BY <1>0, <2>1 DEF Begin
    <3> QED
      BY <3>1 DEF IdleWorker
  <2> QED
    BY <2>1 DEF reconcile, Drop
<1>3. CopiesOK'
  <2> SUFFICES ASSUME mw # "absent", NEW v \in Workers, Busy(v)', Alone(Of(v)')
               PROVE  CopyOK(v)'
    BY <1>0 DEF CopiesOK, Alone
  <2>1. CASE worker'[v] = worker[v]
    BY <1>0, <2>1 DEF CopiesOK, CopyOK, Busy, Of
  <2>2. CASE worker'[v].pc = "aw"
    BY <2>2 DEF CopyOK
  <2> QED
    BY <1>1, <1>2, <2>1, <2>2
<1>4. ASSUME NEW o \in Objects, Watched(o)'
      PROVE  /\ \/ Reported(o)' \/ Queued(o)' \/ Delayed(o)
                \/ \E v \in Workers : Busy(v)' /\ Of(v)' = o
             /\ \A v \in Workers : Busy(v)' /\ Of(v)' = o =>
                   Queued(o)' \/ worker'[v].obj = object[o]
  <2>1. Reported(o)' = Reported(o)
    BY <1>0 DEF Reported
  <2>2. CASE k[1] = o
    <3>1. lister /\ o \in store /\ object[o].owned /\ o \notin overlapped'
      BY <1>0, <1>4 DEF Watched, Alone, Inv, StoreOK
    <3>2. worker'[w].pc = "aw" /\ worker'[w].key = k /\ worker'[w].obj = object[o]
      <4>1. Begin(w, k, FALSE, object[o])
        BY <2>2, <3>1 DEF reconcile
      <4>2. worker'[w] = [IdleWorker EXCEPT !.pc = "aw", !.key = k, !.gone = FALSE,
                                            !.obj = object[o]]
        BY <1>0, <4>1 DEF Begin
      <4> QED
        BY <4>2 DEF IdleWorker
    <3>3. ASSUME NEW v \in Workers \ {w}, Busy(v), Of(v) = o
          PROVE  FALSE
      <4>1. Begin(w, k, FALSE, object[o])
        BY <2>2, <3>1 DEF reconcile
      <4> QED
        BY <2>2, <3>1, <3>3, <4>1 DEF Begin
    <3>4. Busy(w)' /\ Of(w)' = o
      BY <2>2, <3>2 DEF Busy, Of
    <3>5. \A v \in Workers : Busy(v)' /\ Of(v)' = o => v = w
      BY <1>1, <3>3 DEF Busy, Of
    <3> QED
      BY <3>2, <3>4, <3>5
  <2>3. CASE k[1] # o
    <3>0. Watched(o)
      BY <1>0, <1>4, <2>3 DEF Watched, Alone
    <3>1. Queued(o)' = Queued(o)
      BY <1>0, <2>3 DEF Queued
    <3>2. \A v \in Workers : Busy(v)' /\ Of(v)' = o <=> Busy(v) /\ Of(v) = o
      BY <1>0, <1>1, <1>2, <2>3 DEF Busy, Of
    <3>3. \A v \in Workers : Busy(v) => worker'[v].obj = worker[v].obj
      BY <1>0, <1>1
    <3> QED
      BY <2>1, <3>0, <3>1, <3>2, <3>3 DEF OnItsWay
  <2> QED
    BY <2>2, <2>3
<1>5. OnItsWay'
  BY <1>0, <1>4 DEF OnItsWay, Delayed
<1> QED
  BY <1>3, <1>5

(* So do changes of the cluster, the hub and the queue.                    *)
LEMMA EnvironmentOnItsWay ==
    ASSUME Inv, CopiesOK, OnItsWay,
           \/ Environment \/ startInformer
           \/ \E o \in Objects : informerAdds(o) \/ enqueueObject(o)
           \/ \E k \in waiting : AddRateLimitedFires(k)
    PROVE  CopiesOK' /\ OnItsWay'
<1> USE DEF Watched, Alone, Queued, Delayed
<1>0. TypeOK /\ StoreOK
  BY DEF Inv
<1>1. ASSUME NEW x \in Objects, NEW v \in {0, changes + 1}, NEW l \in Labels,
             NEW own \in Owners, SetObject(x, v, l, own)
      PROVE  CopiesOK' /\ OnItsWay'
  <2>1. /\ UNCHANGED <<overlapped, skipped, store, dirty, waiting, mw, ws, worker>>
        /\ \A o \in Objects : o # x => object'[o] = object[o] /\ events'[o] = events[o]
        /\ x \in store => events'[x] > 0
    BY <1>0, <1>1 DEF SetObject, Notify, TypeOK, hubVars, historyVars
  <2>2. CopiesOK'
    BY <2>1 DEF CopiesOK, CopyOK, Busy, Of
  <2>3. \A o \in Objects : o # x => Reported(o)' = Reported(o)
    BY <2>1 DEF Reported
  <2>4. OnItsWay'
    BY <2>1, <2>3 DEF OnItsWay, Busy, Of
  <2> QED
    BY <2>2, <2>4
<1>2. ASSUME NEW x \in Objects, DeleteObject(x)
      PROVE  CopiesOK' /\ OnItsWay'
  <2>1. /\ UNCHANGED <<overlapped, skipped, dirty, waiting, mw, ws, worker>>
        /\ store' = store \ {x}
        /\ \A o \in Objects : o # x => object'[o] = object[o] /\ events'[o] = events[o]
    BY <1>0, <1>2 DEF DeleteObject, Notify, TypeOK, hubVars
  <2>2. CopiesOK'
    BY <2>1 DEF CopiesOK, CopyOK, Busy, Of
  <2>3. \A o \in Objects : o # x => Reported(o)' = Reported(o)
    BY <2>1 DEF Reported
  <2>4. OnItsWay'
    BY <2>1, <2>3 DEF OnItsWay, Busy, Of
  <2> QED
    BY <2>2, <2>4
<1>3. ASSUME \/ DeleteManifestWork
             \/ \E x \in Objects : GarbageCollect(x)
      PROVE  CopiesOK' /\ OnItsWay'
  <2>1. mw' = "absent"
    BY <1>3 DEF DeleteManifestWork, GarbageCollect
  <2> QED
    BY <2>1 DEF CopiesOK, OnItsWay
<1>4. CASE RemoveAppliedManifestWork \/ RelabelManifestWork
  <2>1. /\ UNCHANGED <<object, queueVars, ws, worker, overlapped, skipped>>
        /\ mw' # "absent" => mw # "absent"
    BY <1>4 DEF RemoveAppliedManifestWork, RelabelManifestWork, hubVars, historyVars
  <2> QED
    BY <2>1 DEF CopiesOK, CopyOK, OnItsWay, Reported, Busy, Of, queueVars
<1>5. CASE stopInformer \/ startInformer
  <2>1. UNCHANGED <<hubVars, worker, overlapped>> /\ store' = {}
    BY <1>5 DEF stopInformer, startInformer, historyVars
  <2> QED
    BY <2>1 DEF CopiesOK, CopyOK, OnItsWay, Busy, Of, hubVars
<1>6. ASSUME NEW x \in Objects, informerAdds(x)
      PROVE  CopiesOK' /\ OnItsWay'
  <2>1. /\ UNCHANGED <<object, overlapped, skipped, dirty, waiting, mw, ws, worker>>
        /\ store' = store \cup {x} /\ events'[x] > 0
        /\ \A o \in Objects : o # x => events'[o] = events[o]
    BY <1>0, <1>6 DEF informerAdds, TypeOK, clusterVars, hubVars
  <2>2. CopiesOK'
    BY <2>1 DEF CopiesOK, CopyOK, Busy, Of
  <2>3. \A o \in Objects : Reported(o)' = Reported(o)
    BY <2>1 DEF Reported
  <2>4. OnItsWay'
    BY <2>1, <2>3 DEF OnItsWay, Busy, Of
  <2> QED
    BY <2>2, <2>4
<1>7. ASSUME \/ \E x \in Objects : enqueueObject(x)
             \/ \E k \in waiting : AddRateLimitedFires(k)
      PROVE  CopiesOK' /\ OnItsWay'
  <2>1. UNCHANGED <<object, overlapped, skipped, store, mw, ws, worker>>
    BY <1>7 DEF enqueueObject, AddRateLimitedFires, clusterVars, hubVars, historyVars
  <2>2. CopiesOK'
    BY <2>1 DEF CopiesOK, CopyOK, Busy, Of
  <2>3. \A o \in Objects : Reported(o)' = Reported(o)
    BY <2>1 DEF Reported
  <2>4. ASSUME NEW o \in Objects, Watched(o)
        PROVE  /\ Queued(o) => Queued(o)'
               /\ Delayed(o) => Delayed(o)' \/ Queued(o)'
    <3>1. lister
      BY <1>0, <2>4 DEF StoreOK
    <3>2. events \in [Objects -> Nat]
      BY <1>0 DEF TypeOK
    <3>3. ASSUME NEW x \in Objects, enqueueObject(x)
          PROVE  Queued(o)' \/ ~Queued(o)
      <4>1. CASE x = o
        <5>1. <<o, 0>> \in dirty'
          BY <2>4, <3>1, <3>3, <4>1 DEF enqueueObject
        <5>2. <<o, 0>>[1] = o
          OBVIOUS
        <5> QED
          BY <5>1, <5>2
      <4>2. CASE x # o
        BY <3>2, <3>3, <4>2 DEF enqueueObject
      <4> QED
        BY <4>1, <4>2
    <3>4. ASSUME NEW k \in waiting, AddRateLimitedFires(k)
          PROVE  dirty' = dirty \cup {k} /\ waiting' = waiting \ {k} /\ events' = events
      BY <3>4 DEF AddRateLimitedFires
    <3>5. (\E x \in Objects : enqueueObject(x)) => waiting' = waiting
      BY DEF enqueueObject
    <3> QED
      BY <1>7, <3>3, <3>4, <3>5
  <2> HIDE DEF Queued, Delayed
  <2>5. OnItsWay'
    BY <2>1, <2>3, <2>4 DEF OnItsWay, Busy, Of
  <2> QED
    BY <2>2, <2>5
<1>8. CASE Restart
  <2>1. store' = {} /\ \A w \in Workers : worker'[w].pc = "idle"
    BY <1>8 DEF Restart, IdleWorker
  <2> QED
    BY <2>1 DEF CopiesOK, OnItsWay, Busy
<1> QED
  BY <1>1, <1>2, <1>3, <1>4, <1>5, <1>6, <1>7, <1>8 DEF Environment

(* Nothing gets lost on any step.                                          *)
LEMMA NextOnItsWay ==
    ASSUME Inv, Inv', CopiesOK, OnItsWay, [Next]_vars
    PROVE  CopiesOK' /\ OnItsWay'
<1>1. CASE UNCHANGED vars
  <2>1. UNCHANGED <<object, overlapped, skipped, store, events, dirty, waiting, mw, ws, worker>>
    BY <1>1 DEF vars, clusterVars, queueVars, hubVars, historyVars
  <2> QED
    BY <2>1 DEF CopiesOK, CopyOK, OnItsWay, Watched, Alone, Queued, Delayed, Reported, Busy, Of
<1>2. ASSUME NEW w \in Workers, WorkerStep(w) \/ hubRequestFails(w)
      PROVE  CopiesOK' /\ OnItsWay'
  <2>1. CASE Busy(w)
    BY <1>2, <2>1, WorkerOnItsWay DEF Inv
  <2>2. CASE ~Busy(w)
    BY <1>2, <2>2, ReconcileOnItsWay DEF Busy, WorkerStep, GetAppliedManifestWork,
       deleteGetWorkStatus, deleteWorkStatus, getWorkStatus, GetManifestWork,
       createWorkStatus, patchWorkStatus, updateStatus, hubRequestFails
  <2> QED
    BY <2>1, <2>2
<1> QED
  BY <1>1, <1>2, EnvironmentOnItsWay DEF Next

(* When the agent has nothing left to do, what is not reported would be on *)
(* its way.                                                                *)
LEMMA SettledReported ==
    ASSUME Inv, OnItsWay, Settled, aw, mw # "absent", lister,
           NEW o \in Objects, Alone(o), o \notin skipped,
           object[o].exists, object[o].owned
    PROVE  Reported(o)
<1>1. Watched(o)
  BY DEF Settled, Watched
<1>2. ~Queued(o) /\ \A w \in Workers : ~Busy(w)
  BY <1>1 DEF Settled, Queued, Busy
<1>3. ASSUME NEW k \in waiting, k[1] = o
      PROVE  Reported(o)
  BY <1>3 DEF Settled, Blocked, Reported
<1> QED
  BY <1>1, <1>2, <1>3 DEF OnItsWay, Delayed

LEMMA InitOnItsWay == Init => CopiesOK /\ OnItsWay
  BY DEF Init, CopiesOK, OnItsWay, Watched, Busy, IdleWorker

(* No status is lost: whatever the order of events, retries, crashes and   *)
(* unanswered requests, whatever is deleted, created again or relabelled,  *)
(* and however often the informer stops and starts, once any number of     *)
(* workers have nothing left to do the hub has the latest one, unless two  *)
(* of them were at the object or the ManifestWork had no label.            *)
THEOREM NothingLost == Spec => []LiveObjectsReported
<1>1. Inv /\ CopiesOK /\ OnItsWay /\ [Next]_vars => (Inv /\ CopiesOK /\ OnItsWay)'
  BY NextInv, NextOnItsWay
<1>2. Inv /\ OnItsWay => LiveObjectsReported
  BY SettledReported DEF LiveObjectsReported, Alone
<1> QED
  BY <1>1, <1>2, InitInv, InitOnItsWay, PTL DEF Spec
-----------------------------------------------------------------------------
(* For StatusAgent.  There the registry starts and stops the informer, the *)
(* AppliedManifestWork comes and goes, and is made again, and Create fails *)
(* for want of the object's resource: all keep the invariant.              *)
LEMMA InformerOnItsWay ==
    ASSUME Inv, CopiesOK, OnItsWay,
           startInformer \/ (stopInformer /\ UNCHANGED changes)
    PROVE  Inv' /\ CopiesOK' /\ OnItsWay'
<1>1. /\ UNCHANGED <<object, owners, aw, changes, events, dirty, waiting, ptrs, mw, ws, failures,
                     worker, managed, overlapped, skipped, missed>>
      /\ store' = {} /\ lister' \in BOOLEAN
      /\ doubtful \subseteq doubtful' /\ doubtful' \subseteq Objects
  BY DEF startInformer, stopInformer, clusterVars, hubVars, historyVars, Inv, TypeOK
<1>2. TypeOK'
  BY <1>1 DEF Inv, TypeOK
<1>3. WorkersOK' /\ StoreOK' /\ OverlapOK' /\ ManagedOK' /\ StatusOK'
  BY <1>1 DEF Inv, WorkersOK, StoreOK, OverlapOK, OneWorkerPerObject, ManagedOK, StatusOK, Busy, Of
<1>4. UndoubtedOK'
  <2>1. \A o \in Objects \ doubtful' : ~(events[o] > 0)
    BY DEF Inv, StoreOK, UndoubtedOK, startInformer, stopInformer, historyVars
  <2> QED
    BY <1>1, <2>1 DEF Inv, UndoubtedOK, Busy, Of
<1>5. CopiesOK' /\ OnItsWay'
  BY <1>1 DEF CopiesOK, CopyOK, OnItsWay, Watched, Alone, Busy, Of
<1> QED
  BY <1>2, <1>3, <1>4, <1>5 DEF Inv

LEMMA WorkOnItsWay ==
    ASSUME Inv, CopiesOK, OnItsWay, aw' \in BOOLEAN,
           UNCHANGED <<object, owners, changes, queueVars, hubVars, worker, historyVars>>
    PROVE  Inv' /\ CopiesOK' /\ OnItsWay'
<1>1. UNCHANGED <<object, owners, changes, lister, store, events, dirty, waiting, ptrs, mw, ws,
                  failures, worker, managed, doubtful, overlapped, skipped, missed>>
  BY DEF queueVars, hubVars, historyVars
<1>2. TypeOK'
  BY <1>1 DEF Inv, TypeOK
<1>3. WorkersOK' /\ StoreOK' /\ UndoubtedOK' /\ OverlapOK' /\ StatusOK' /\ ManagedOK'
  BY <1>1 DEF Inv, WorkersOK, StoreOK, UndoubtedOK, OverlapOK, OneWorkerPerObject, StatusOK,
     ManagedOK, Busy, Of
<1>4. CopiesOK' /\ OnItsWay'
  BY <1>1 DEF CopiesOK, CopyOK, OnItsWay, Watched, Alone, Queued, Delayed, Reported, Busy, Of
<1> QED
  BY <1>2, <1>3, <1>4 DEF Inv

LEMMA RetryOnItsWay ==
    ASSUME Inv, CopiesOK, OnItsWay, NEW w \in Workers, Busy(w), Retry(w),
           UNCHANGED <<clusterVars, lister, store, events, dirty, ptrs, hubVars, historyVars>>
    PROVE  Inv' /\ CopiesOK' /\ OnItsWay'
<1>0. worker \in [Workers -> WorkerState] /\ worker[w].key \in Objects \X Nat
  BY DEF Inv, TypeOK, WorkersOK
<1>1. /\ \A v \in Workers \ {w} : worker'[v] = worker[v]
      /\ worker'[w].pc = "idle" /\ worker'[w].key = NoKey
      /\ waiting' = waiting \cup {worker[w].key}
  BY <1>0 DEF Retry, Requeue, Done, IdleWorker
<1>2. Effect(w) /\ Progress(w)
  BY <1>1 DEF Effect, Progress, Same, hubVars, historyVars
<1>3. TypeOK'
  <2>1. worker' \in [Workers -> WorkerState] /\ waiting' \subseteq Objects \X Nat
    BY <1>0, IdleType DEF Retry, Requeue, Done, Inv, TypeOK
  <2> QED
    BY <2>1 DEF Inv, TypeOK, clusterVars, hubVars, historyVars
<1> QED
  BY <1>2, <1>3, EffectInv, EffectOnItsWay

LEMMA NewWorkOnItsWay ==
    ASSUME Inv, CopiesOK, OnItsWay, aw' \in BOOLEAN, NewAppliedManifestWork
    PROVE  Inv' /\ CopiesOK' /\ OnItsWay'
<1>0. TypeOK /\ worker \in [Workers -> WorkerState] /\ events \in [Objects -> Nat]
  BY DEF Inv, TypeOK
<1> DEFINE Late == {w \in Workers : worker[w].pc \notin {"idle", "aw"}}
<1>1. /\ UNCHANGED <<object, owners, changes, lister, store, dirty, ptrs, mw, failures,
                     managed, doubtful, overlapped, skipped, missed>>
      /\ \A o \in Objects : ws'[o] = NoWS
      /\ \A o \in Objects : events'[o] = IF o \in store THEN events[o] + 1 ELSE events[o]
  BY DEF NewAppliedManifestWork, historyVars
<1>2. \A w \in Workers : worker'[w] = IF w \in Late THEN IdleWorker ELSE worker[w]
  BY DEF NewAppliedManifestWork
<1>3. \A k \in waiting' : k \in waiting \/ \E w \in Workers : Busy(w) /\ k = worker[w].key
  BY DEF NewAppliedManifestWork, Busy
<1>4. \A w \in Workers :
         \/ worker'[w] = worker[w] /\ worker[w].pc \in {"idle", "aw"}
         \/ worker'[w] = IdleWorker
  BY <1>2 DEF Busy, IdleWorker
<1> HIDE DEF Late
<1>5. WorkersOK' /\ StoreOK' /\ OverlapOK' /\ ManagedOK'
  <2>1. WorkersOK'
    BY <1>4 DEF Inv, WorkersOK, Busy, IdleWorker
  <2>2. StoreOK'
    BY <1>1 DEF Inv, StoreOK
  <2>3. OverlapOK'
    BY <1>1, <1>4 DEF Inv, OverlapOK, OneWorkerPerObject, Busy, Of, IdleWorker
  <2>4. ManagedOK'
    BY <1>1, <1>4 DEF Inv, ManagedOK, Busy, IdleWorker
  <2> QED
    BY <2>1, <2>2, <2>3, <2>4
<1>6. UndoubtedOK'
  BY <1>0, <1>1, <1>3, <1>4 DEF Inv, UndoubtedOK, Busy, Of, IdleWorker
<1>7. TypeOK'
  <2>1. worker' \in [Workers -> WorkerState]
    BY <1>0, IdleType DEF NewAppliedManifestWork
  <2>2. ws' \in [Objects -> WorkStatus]
    BY DEF NewAppliedManifestWork, NoWS, WorkStatus
  <2>3. events' \in [Objects -> Nat]
    BY <1>0 DEF NewAppliedManifestWork
  <2>4. waiting' \subseteq Objects \X Nat
    BY <1>0, <1>3 DEF Inv, WorkersOK, TypeOK
  <2> QED
    BY <1>0, <1>1, <2>1, <2>2, <2>3, <2>4 DEF TypeOK
<1>8. StatusOK'
  <2>1. /\ \A o \in Objects : object[o].ver \in Nat
        /\ \A w \in Workers : worker[w].obj.ver \in Nat
    BY <1>0 DEF TypeOK, Object, WorkerState
  <2> QED
    BY <1>1, <1>4, <2>1 DEF Inv, StatusOK, Busy, Of, NoWS, IdleWorker
<1>9. CopiesOK'
  BY <1>4 DEF CopiesOK, CopyOK, Busy, IdleWorker
<1>10. OnItsWay'
  BY <1>0, <1>1 DEF OnItsWay, Watched, Queued
<1> QED
  BY <1>5, <1>6, <1>7, <1>8, <1>9, <1>10 DEF Inv
-----------------------------------------------------------------------------
(* What the deletion of an object leaves to be removed: its WorkStatus, or *)
(* the work of a worker that has yet to notice.                            *)
ToClear(o) ==
    /\ ~object[o].exists /\ o \notin overlapped \cup missed
    /\ ws[o].exists \/ \E w \in Workers : Busy(w) /\ Of(w) = o /\ ~worker[w].gone

(* Its delete event is pending, as a notification, as a key that stands    *)
(* for a DeletedObject, or in the hands of a worker that saw it gone.      *)
DeletePending(o) ==
    \/ events[o] > 0
    \/ \E k \in dirty \cup waiting : k[1] = o /\ k[2] # 0
    \/ \E w \in Workers : Busy(w) /\ Of(w) = o /\ worker[w].gone

ClearOK == \A o \in Objects : ToClear(o) => DeletePending(o)

(* A worker that saw its object gone ends with a retry, with the           *)
(* WorkStatus deleted, or with a Delete that failed.                       *)
LEMMA GoneProgress ==
    ASSUME Inv, NEW w \in Workers, Busy(w), worker[w].gone,
           WorkerStep(w) \/ hubRequestFails(w)
    PROVE  \/ Busy(w)' \/ worker[w].key \in waiting'
           \/ ~ws'[Of(w)].exists \/ Of(w) \in missed'
<1>0. /\ worker \in [Workers -> WorkerState] /\ worker[w] \in WorkerState
      /\ ws \in [Objects -> WorkStatus] /\ Of(w) \in Objects
  BY DEF Inv, TypeOK, WorkersOK, Of
<1>1. worker[w].pc \in {"aw", "delGet", "delete"}
  BY DEF Inv, WorkersOK
<1>2. ASSUME Retry(w) PROVE worker[w].key \in waiting'
  BY <1>2 DEF Retry, Requeue
<1>3. ASSUME NEW pc \in {"delGet", "delete"}, Goto(w, pc)
      PROVE  Busy(w)'
  <2>1. worker'[w] = [worker[w] EXCEPT !.pc = pc]
    BY <1>0, <1>3 DEF Goto
  <2> QED
    BY <1>0, <2>1 DEF Busy, WorkerState
<1>4. CASE GetAppliedManifestWork(w)
  BY <1>2, <1>3, <1>4 DEF GetAppliedManifestWork
<1>5. CASE deleteGetWorkStatus(w) \/ hubRequestFails(w)
  BY <1>2, <1>3, <1>5 DEF deleteGetWorkStatus, hubRequestFails
<1>6. CASE deleteWorkStatus(w)
  BY <1>0, <1>6 DEF deleteWorkStatus, NoWS
<1> QED
  BY <1>1, <1>4, <1>5, <1>6 DEF WorkerStep, reconcile, Busy, getWorkStatus,
     GetManifestWork, createWorkStatus, patchWorkStatus, updateStatus

(* A worker keeps every deletion pending that is not carried out.          *)
LEMMA WorkerClears ==
    ASSUME Inv, ClearOK, NEW w \in Workers, Busy(w), WorkerStep(w) \/ hubRequestFails(w)
    PROVE  ClearOK'
<1>1. Effect(w)
  BY WorkerEffect DEF Inv
<1>2. /\ UNCHANGED <<object, overlapped, events, dirty>>
      /\ waiting \subseteq waiting' /\ missed \subseteq missed'
      /\ \A o \in Objects : o # Of(w) => ws'[o] = ws[o]
      /\ \A v \in Workers \ {w} : Same(v)
      /\ Of(w) \in Objects /\ worker[w].key[1] = Of(w)
  BY <1>1 DEF Effect, clusterVars, Inv, WorkersOK, Of
<1>3. \A v \in Workers :
         Busy(v)' => Busy(v) /\ Of(v)' = Of(v) /\ worker'[v].gone = worker[v].gone
  BY <1>1 DEF Effect, Same, Busy, Of
<1>4. ASSUME NEW o \in Objects, ToClear(o)'
      PROVE  DeletePending(o)'
  <2>0. o \notin overlapped
    BY <1>2, <1>4 DEF ToClear
  <2>1. CASE o # Of(w)
    <3>1. ToClear(o)
      BY <1>2, <1>3, <1>4, <2>1 DEF ToClear
    <3>2. DeletePending(o)
      BY <3>1 DEF ClearOK
    <3>3. ASSUME NEW v \in Workers, Busy(v), Of(v) = o, worker[v].gone
          PROVE  Busy(v)' /\ Of(v)' = o /\ worker'[v].gone
      BY <1>2, <2>1, <3>3 DEF Same, Busy, Of
    <3> QED
      BY <1>2, <3>2, <3>3 DEF DeletePending
  <2>2. ASSUME o = Of(w), NEW v \in Workers, Busy(v), Of(v) = o
        PROVE  v = w
    BY <2>0, <2>2 DEF Inv, OverlapOK
  <2>3. CASE o = Of(w) /\ worker[w].gone
    <3>1. worker[w].key[2] # 0
      BY <2>3 DEF Inv, WorkersOK
    <3>2. CASE Busy(w)'
      BY <1>3, <2>3, <3>2 DEF DeletePending
    <3>3. CASE worker[w].key \in waiting'
      BY <1>2, <2>3, <3>1, <3>3 DEF DeletePending
    <3>4. CASE ~Busy(w)' /\ (~ws'[Of(w)].exists \/ Of(w) \in missed')
      BY <1>3, <1>4, <2>2, <2>3, <3>4 DEF ToClear
    <3> QED
      BY <2>3, <3>2, <3>3, <3>4, GoneProgress
  <2>4. CASE o = Of(w) /\ ~worker[w].gone
    <3>1. ToClear(o)
      BY <1>2, <1>4, <2>4 DEF ToClear
    <3>2. DeletePending(o) /\ \A v \in Workers : Busy(v) /\ Of(v) = o => ~worker[v].gone
      BY <2>2, <2>4, <3>1 DEF ClearOK
    <3> QED
      BY <1>2, <3>2 DEF DeletePending
  <2> QED
    BY <2>1, <2>3, <2>4
<1> QED
  BY <1>4 DEF ClearOK

(* So does reconcile: it takes a key that stands for a DeletedObject to    *)
(* delete the WorkStatus, or the object is in the store again, or the      *)
(* deletion is missed.                                                     *)
LEMMA ReconcileClears ==
    ASSUME Inv, ClearOK, NEW w \in Workers, NEW k \in dirty, reconcile(w, k)
    PROVE  ClearOK'
<1>0. /\ UNCHANGED <<object, lister, store, events, waiting, ws>> /\ dirty' = dirty \ {k}
      /\ k \in Objects \X Nat /\ ~Busy(w) /\ worker \in [Workers -> WorkerState]
      /\ overlapped \subseteq overlapped' /\ missed \subseteq missed'
  BY DEF reconcile, Begin, Drop, Inv, TypeOK, clusterVars, hubVars, Busy
<1>1. ASSUME NEW g, NEW x, Begin(w, k, g, x)
      PROVE  /\ Busy(w)' /\ Of(w)' = k[1] /\ worker'[w].gone = g
             /\ \A v \in Workers \ {w} : worker'[v] = worker[v]
  <2>1. worker'[w] = [IdleWorker EXCEPT !.pc = "aw", !.key = k, !.gone = g, !.obj = x]
    BY <1>0, <1>1 DEF Begin
  <2>2. worker'[w].pc = "aw" /\ worker'[w].key = k /\ worker'[w].gone = g
    BY <2>1 DEF IdleWorker
  <2> QED
    BY <1>0, <1>1, <2>2 DEF Begin, Busy, Of
<1>2. CASE k[1] \in store /\ Begin(w, k, FALSE, object[k[1]])
  <2>1. /\ Busy(w)' /\ Of(w)' = k[1] /\ object[k[1]].exists
        /\ \A v \in Workers \ {w} : worker'[v] = worker[v]
    BY <1>0, <1>1, <1>2 DEF Inv, StoreOK
  <2>2. ASSUME NEW o \in Objects, ToClear(o)'
        PROVE  ToClear(o) /\ o # k[1]
    BY <1>0, <2>1, <2>2 DEF ToClear, Busy, Of
  <2>3. ASSUME NEW o \in Objects, o # k[1], DeletePending(o)
        PROVE  DeletePending(o)'
    BY <1>0, <2>1, <2>3 DEF DeletePending, Busy, Of
  <2> QED
    BY <2>2, <2>3 DEF ClearOK
<1>3. CASE Begin(w, k, TRUE, Gone)
  <2>1. /\ Busy(w)' /\ Of(w)' = k[1] /\ worker'[w].gone
        /\ \A v \in Workers \ {w} : worker'[v] = worker[v]
    BY <1>1, <1>3
  <2>2. ASSUME NEW o \in Objects, ToClear(o)'
        PROVE  ToClear(o)
    BY <1>0, <2>1, <2>2 DEF ToClear, Busy, Of
  <2>3. ASSUME NEW o \in Objects, DeletePending(o)
        PROVE  DeletePending(o)'
    BY <1>0, <2>1, <2>3 DEF DeletePending, Busy, Of
  <2> QED
    BY <2>2, <2>3 DEF ClearOK
<1>4. CASE Drop(k)
  <2>1. UNCHANGED worker
    BY <1>4 DEF Drop
  <2>2. ASSUME NEW o \in Objects, ToClear(o)'
        PROVE  DeletePending(o)'
    <3>1. ToClear(o)
      BY <1>0, <2>1, <2>2 DEF ToClear, Busy, Of
    <3>2. o \notin store
      BY <3>1 DEF ToClear, Inv, StoreOK
    <3>3. k[1] # o \/ k[2] = 0
      BY <1>4, <2>2, <3>2 DEF Drop, ToClear
    <3> QED
      BY <1>0, <2>1, <3>1, <3>3 DEF ClearOK, DeletePending, Busy, Of
  <2> QED
    BY <2>2 DEF ClearOK
<1> QED
  BY <1>2, <1>3, <1>4 DEF reconcile

(* So do changes of the cluster, the hub and the queue.                    *)
LEMMA EnvironmentClears ==
    ASSUME Inv, ClearOK,
           \/ Environment \/ startInformer
           \/ \E o \in Objects : informerAdds(o) \/ enqueueObject(o)
           \/ \E k \in waiting : AddRateLimitedFires(k)
    PROVE  ClearOK'
<1>0. TypeOK /\ StoreOK /\ events \in [Objects -> Nat]
  BY DEF Inv, TypeOK
<1>1. ASSUME UNCHANGED <<ws, worker, overlapped, dirty, waiting>>,
             \A o \in Objects : events[o] > 0 => events'[o] > 0,
             \A o \in Objects : ~object'[o].exists =>
                 \/ events'[o] > 0 \/ o \in missed'
                 \/ ~object[o].exists /\ (o \in missed => o \in missed')
      PROVE  ClearOK'
  <2>1. \A o \in Objects : DeletePending(o) => DeletePending(o)'
    BY <1>1 DEF DeletePending, Busy, Of
  <2>2. \A o \in Objects : ToClear(o)' => ToClear(o) \/ events'[o] > 0
    BY <1>1 DEF ToClear, Busy, Of
  <2> QED
    BY <2>1, <2>2 DEF ClearOK, DeletePending
<1>2. ASSUME NEW x \in Objects, NEW v \in {0, changes + 1}, NEW l \in Labels,
             NEW own \in Owners, SetObject(x, v, l, own)
      PROVE  ClearOK'
  BY <1>0, <1>1, <1>2 DEF SetObject, Notify, TypeOK, hubVars, historyVars
<1>3. ASSUME NEW x \in Objects, DeleteObject(x)
      PROVE  ClearOK'
  BY <1>0, <1>1, <1>3 DEF DeleteObject, Notify, TypeOK, hubVars
<1>4. ASSUME NEW x \in Objects, informerAdds(x)
      PROVE  ClearOK'
  BY <1>0, <1>1, <1>4 DEF informerAdds, TypeOK, clusterVars, hubVars
<1>5. CASE startInformer \/ stopInformer \/ RemoveAppliedManifestWork
  BY <1>1, <1>5 DEF startInformer, stopInformer, RemoveAppliedManifestWork, clusterVars,
     queueVars, hubVars, historyVars
<1>6. CASE DeleteManifestWork \/ RelabelManifestWork
  BY <1>1, <1>6 DEF DeleteManifestWork, RelabelManifestWork, clusterVars, queueVars, historyVars
<1>7. ASSUME NEW x \in Objects, GarbageCollect(x)
      PROVE  ClearOK'
  <2>1. /\ UNCHANGED <<object, overlapped, missed, events, dirty, waiting>>
        /\ \A o \in Objects : ws'[o].exists => ws[o].exists
        /\ \A w \in Workers : Same(w)
    BY <1>0, <1>7, CopiesType DEF GarbageCollect, TypeOK, NoWS, clusterVars, queueVars,
       historyVars, Same
  <2> QED
    BY <2>1 DEF ClearOK, ToClear, DeletePending, Same, Busy, Of
<1>8. ASSUME NEW x \in Objects, enqueueObject(x)
      PROVE  ClearOK'
  <2>1. /\ UNCHANGED <<object, overlapped, store, waiting, ws, worker>>
        /\ dirty \subseteq dirty' /\ missed \subseteq missed'
        /\ \A o \in Objects : o # x => events'[o] = events[o]
        /\ x \in store \/ x \in missed' \/ <<x, ptrs + 1>> \in dirty'
    BY <1>0, <1>8 DEF enqueueObject, TypeOK, clusterVars, hubVars
  <2>2. ASSUME NEW o \in Objects, ToClear(o)'
        PROVE  DeletePending(o)'
    <3>1. ToClear(o)
      BY <2>1, <2>2 DEF ToClear, Busy, Of
    <3>2. CASE o = x
      <4>1. <<x, ptrs + 1>> \in dirty' /\ ptrs + 1 # 0
        BY <1>0, <2>1, <2>2, <3>1, <3>2 DEF ToClear, TypeOK, StoreOK
      <4> QED
        BY <3>2, <4>1 DEF DeletePending
    <3>3. CASE o # x
      BY <2>1, <3>1, <3>3 DEF ClearOK, DeletePending, Busy, Of
    <3> QED
      BY <3>2, <3>3
  <2> QED
    BY <2>2 DEF ClearOK
<1>9. ASSUME NEW k \in waiting, AddRateLimitedFires(k)
      PROVE  ClearOK'
  <2>1. /\ UNCHANGED <<object, overlapped, missed, events, ws, worker>>
        /\ dirty' \cup waiting' = dirty \cup waiting
    BY <1>9 DEF AddRateLimitedFires, clusterVars, hubVars, historyVars
  <2> QED
    BY <2>1 DEF ClearOK, ToClear, DeletePending, Busy, Of
<1>10. CASE Restart
  BY <1>10 DEF Restart, ClearOK, ToClear, clusterVars
<1> QED
  BY <1>2, <1>3, <1>4, <1>5, <1>6, <1>7, <1>8, <1>9, <1>10 DEF Environment

(* No WorkStatus is left behind without a reason: whatever fails, crashes  *)
(* or goes unanswered, and however many workers there are, one that is     *)
(* left once they have nothing to do is of an object that two workers were *)
(* at, or whose deletion no informer saw, was not its owner's or failed.   *)
THEOREM NothingLeftBehind == Spec => []LeftBehindExplained
<1>1. Init => ClearOK
  BY DEF Init, ClearOK, ToClear, Busy, IdleWorker, NoWS
<1>2. ASSUME Inv, ClearOK, [Next]_vars
      PROVE  ClearOK'
  <2>1. CASE UNCHANGED vars
    <3>1. UNCHANGED <<object, overlapped, missed, events, dirty, waiting, ws, worker>>
      BY <2>1 DEF vars, clusterVars, queueVars, hubVars, historyVars
    <3> QED
      BY <1>2, <3>1 DEF ClearOK, ToClear, DeletePending, Busy, Of
  <2>2. ASSUME NEW w \in Workers, WorkerStep(w) \/ hubRequestFails(w)
        PROVE  ClearOK'
    <3>1. CASE Busy(w)
      BY <1>2, <2>2, <3>1, WorkerClears
    <3>2. CASE ~Busy(w)
      BY <1>2, <2>2, <3>2, ReconcileClears DEF Busy, WorkerStep, GetAppliedManifestWork,
         deleteGetWorkStatus, deleteWorkStatus, getWorkStatus, GetManifestWork,
         createWorkStatus, patchWorkStatus, updateStatus, hubRequestFails
    <3> QED
      BY <3>1, <3>2
  <2> QED
    BY <1>2, <2>1, <2>2, EnvironmentClears DEF Next
<1>3. ASSUME Inv, ClearOK
      PROVE  LeftBehindExplained
  <2> SUFFICES ASSUME Settled, aw, NEW o \in Objects \ (overlapped \cup missed), ws[o].exists,
                      ~object[o].exists
               PROVE  FALSE
    BY DEF LeftBehindExplained
  <2>1. DeletePending(o)
    BY <1>3 DEF ClearOK, ToClear
  <2>2. \A k \in waiting : k[1] # o
    BY DEF Settled, Blocked
  <2> QED
    BY <2>1, <2>2 DEF DeletePending, Settled, Busy
<1> QED
  BY <1>1, <1>2, <1>3, InitInv, NextInv, PTL DEF Spec
=============================================================================
