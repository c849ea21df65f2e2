---------------------------- MODULE AgentProofs ----------------------------
(***************************************************************************)
(* That the whole agent loses no status: the invariants of its two halves, *)
(* SingletonProofs!SInv of the registry and ReportingProofs!OnItsWay of    *)
(* reporting, hold together in StatusAgent, and meet when it is quiet.     *)
(***************************************************************************)
EXTENDS StatusAgent, SingletonProofs

SP == INSTANCE ReportingProofs WITH
    Objects <- UIDs, Labels <- {0}, Owners <- {TRUE}, Deletions <- TRUE,
    Relabels <- FALSE, WorkEnds <- FALSE, InformerStops <- TRUE, DeleteMayFail <- TRUE,
    Crashes <- TRUE, MaxChanges <- MaxObjectChanges,
    aw <- AW \in present, lister <- listers[K] # 0,
    owners <- [u \in UIDs |-> {TRUE}], changes <- objChanges, events <- objEvents,
    dirty <- objDirty, waiting <- objWaiting, ptrs <- objPtrs, worker <- objWorker,
    managed <- (mw = "ks"), doubtful <- {u \in UIDs : TRUE},
    overlapped <- objOverlapped, skipped <- {}, missed <- objMissed

(* The ManifestWork keeps its label and the objects keep their owner.      *)
ManagedByKS == mw = "ks" /\ \A u \in UIDs : object[u].exists => object[u].owned

AgentInv == SInv /\ ListOK /\ ManagedByKS /\ SP!Inv /\ SP!CopiesOK /\ SP!OnItsWay
-----------------------------------------------------------------------------
(* The registry's half.                                                    *)

(* With one work, the paced works of StatusAgent are orderly.              *)
LEMMA StepwiseOrderly == Pace = "stepwise" => Orderly
  BY AgentAssumption DEF Orderly, Sole

(* Every step of the agent is a step of its registry, or leaves it alone.  *)
LEMMA RegistrySteps == [AgentNext]_agentVars => [Next]_vars
<1> SUFFICES ASSUME [AgentNext]_agentVars PROVE [Next]_vars
  OBVIOUS
<1>1. CASE UNCHANGED agentVars
  BY <1>1 DEF agentVars
<1>2. CASE WorkAgent
  <2>1. AW \in Works /\ MayList[AW] = UIDs
    BY AgentAssumption
  <2>2. (\E S \in SUBSET UIDs : ApplyWork(AW, S)) \/ DeleteWork(AW)
    BY <1>2 DEF WorkAgent
  <2> QED
    BY <2>1, <2>2 DEF Next, Environment
<1>3. CASE RegistryStep
  BY <1>3, AgentAssumption DEF RegistryStep, Next
<1>4. CASE Restarts
  BY <1>4 DEF Restarts, Next
<1>5. CASE Cluster
  BY <1>5, AgentAssumption DEF Cluster, Next, Environment
<1>6. CASE AgentCrash
  BY <1>6 DEF AgentCrash, Next
<1>7. CASE SyncStep \/ HubFailure
  BY <1>7 DEF SyncStep, HubFailure
<1> QED
  BY <1>1, <1>2, <1>3, <1>4, <1>5, <1>6, <1>7 DEF AgentNext
-----------------------------------------------------------------------------
(* Reporting's half.                                                       *)

(* The initial states are states of the invariant.                         *)
LEMMA InitAgentInv == AgentInit => AgentInv
<1> SUFFICES ASSUME AgentInit PROVE AgentInv
  OBVIOUS
<1>1. SInv /\ ListOK
  BY InitSInv, AgentAssumption DEF AgentInit, Init, ListOK
<1>2. /\ object = [u \in UIDs |-> SP!Gone] /\ ws = [u \in UIDs |-> SP!NoWS]
      /\ objWorker = [w \in Workers |-> SP!IdleWorker]
  BY DEF AgentInit, Sync!Gone, Sync!NoWS, Sync!IdleWorker, Sync!NoKey, SP!Gone, SP!NoWS,
     SP!IdleWorker, SP!NoKey
<1>3. /\ objChanges = 0 /\ store = {} /\ objEvents = [u \in UIDs |-> 0] /\ objDirty = {}
      /\ objWaiting = {} /\ objPtrs = 0 /\ mw = "ks" /\ failures = 0
      /\ objOverlapped = {} /\ objMissed = {}
  BY DEF AgentInit
<1>4. SP!IdleWorker \in SP!WorkerState /\ SP!IdleWorker.pc = "idle" /\ SP!IdleWorker.key = SP!NoKey
  BY DEF SP!WorkerState, SP!IdleWorker, SP!PC, SP!Key, SP!NoKey, SP!Gone, SP!Object
<1>5. /\ SP!Gone \in SP!Object /\ SP!NoWS \in SP!WorkStatus /\ ~SP!Gone.exists
      /\ ~SP!NoWS.exists /\ SP!NoWS.status = 0 /\ SP!Gone.ver = 0
  BY DEF SP!Object, SP!WorkStatus, SP!Gone, SP!NoWS
<1>6. SP!TypeOK
  <2>1. /\ (AW \in present) \in BOOLEAN /\ (listers[K] # 0) \in BOOLEAN /\ (mw = "ks") \in BOOLEAN
        /\ [u \in UIDs |-> {TRUE}] \in [UIDs -> SUBSET BOOLEAN]
    OBVIOUS
  <2> QED
    BY <1>2, <1>3, <1>4, <1>5, <2>1 DEF SP!TypeOK
<1>7. \A w \in Workers : objWorker[w].pc = "idle" /\ ~SP!Busy(w) /\ objWorker[w].key = SP!NoKey
  BY <1>2, <1>4 DEF SP!Busy
<1>8. SP!WorkersOK /\ SP!StoreOK /\ SP!UndoubtedOK /\ SP!StatusOK
  BY <1>2, <1>3, <1>5, <1>7 DEF SP!WorkersOK, SP!StoreOK, SP!UndoubtedOK, SP!StatusOK
<1>9. SP!OverlapOK /\ SP!ManagedOK /\ SP!CopiesOK /\ SP!OnItsWay
  BY <1>3, <1>7 DEF SP!OverlapOK, SP!OneWorkerPerObject, SP!ManagedOK, SP!CopiesOK,
     SP!OnItsWay, SP!Watched
<1>10. ManagedByKS
  BY <1>2, <1>3, <1>5 DEF ManagedByKS
<1> QED
  BY <1>1, <1>6, <1>8, <1>9, <1>10 DEF AgentInv, SP!Inv

(* The actions StatusAgent takes from WorkStatusSync are those that        *)
(* ReportingProofs is about.                                               *)
LEMMA ClusterSteps ==
    ASSUME NEW u \in UIDs
    PROVE  /\ Sync!SetObject(u, objChanges + 1, 0, TRUE) =>
                 SP!SetObject(u, objChanges + 1, 0, TRUE)
           /\ Sync!DeleteObject(u) => SP!DeleteObject(u)
           /\ Sync!informerAdds(u) => SP!informerAdds(u)
           /\ Sync!enqueueObject(u) => SP!enqueueObject(u)
<1> USE DEF Sync!clusterVars, Sync!hubVars, Sync!historyVars, Sync!MayChange, Sync!Notify,
        SP!clusterVars, SP!hubVars, SP!historyVars, SP!MayChange, SP!Notify
<1>1. Sync!SetObject(u, objChanges + 1, 0, TRUE) => SP!SetObject(u, objChanges + 1, 0, TRUE)
  BY DEF Sync!SetObject, SP!SetObject
<1>2. Sync!DeleteObject(u) => SP!DeleteObject(u)
  BY DEF Sync!DeleteObject, Sync!Gone, SP!DeleteObject, SP!Gone
<1>3. Sync!informerAdds(u) => SP!informerAdds(u)
  BY DEF Sync!informerAdds, SP!informerAdds
<1>4. Sync!enqueueObject(u) => SP!enqueueObject(u)
  BY DEF Sync!enqueueObject, SP!enqueueObject
<1> QED
  BY <1>1, <1>2, <1>3, <1>4

LEMMA QueueSteps ==
    /\ \A k : Sync!AddRateLimitedFires(k) => SP!AddRateLimitedFires(k)
    /\ Sync!startInformer => SP!startInformer
    /\ Sync!stopInformer => SP!stopInformer
    /\ Sync!Restart => SP!Restart
    /\ Sync!NewAppliedManifestWork => SP!NewAppliedManifestWork
<1> USE DEF Sync!clusterVars, Sync!hubVars, Sync!historyVars, Sync!IdleWorker, Sync!NoKey,
        Sync!Gone, SP!clusterVars, SP!hubVars, SP!historyVars, SP!IdleWorker, SP!NoKey, SP!Gone
<1>1. ASSUME NEW k PROVE Sync!AddRateLimitedFires(k) => SP!AddRateLimitedFires(k)
  BY DEF Sync!AddRateLimitedFires, SP!AddRateLimitedFires
<1>2. Sync!startInformer => SP!startInformer
  BY DEF Sync!startInformer, SP!startInformer
<1>3. Sync!stopInformer => SP!stopInformer
  BY DEF Sync!stopInformer, SP!stopInformer
<1>4. Sync!Restart => SP!Restart
  BY DEF Sync!Restart, Sync!HubFails, SP!Restart, SP!HubFails
<1>5. Sync!NewAppliedManifestWork => SP!NewAppliedManifestWork
  BY DEF Sync!NewAppliedManifestWork, Sync!NoWS, SP!NewAppliedManifestWork, SP!NoWS
<1> QED
  BY <1>1, <1>2, <1>3, <1>4, <1>5

LEMMA WorkerSteps ==
    ASSUME NEW w \in Workers
    PROVE  /\ Sync!WorkerStep(w) => SP!WorkerStep(w)
           /\ Sync!hubRequestFails(w) => SP!hubRequestFails(w)
           /\ Sync!Retry(w) => SP!Retry(w)
<1> USE DEF Sync!clusterVars, Sync!hubVars, Sync!queueVars, Sync!historyVars, Sync!Of,
        Sync!IdleWorker, Sync!NoKey, Sync!Gone, Sync!NoWS, Sync!Done, Sync!Requeue, Sync!Retry,
        Sync!Goto, Sync!HubFails,
        SP!clusterVars, SP!hubVars, SP!queueVars, SP!historyVars, SP!Of,
        SP!IdleWorker, SP!NoKey, SP!Gone, SP!NoWS, SP!Done, SP!Requeue, SP!Retry,
        SP!Goto, SP!HubFails
<1>1. ASSUME NEW k PROVE Sync!reconcile(w, k) => SP!reconcile(w, k)
  BY DEF Sync!reconcile, Sync!processing, Sync!Begin, Sync!Drop,
     SP!reconcile, SP!processing, SP!Begin, SP!Drop
<1>2. Sync!GetAppliedManifestWork(w) => SP!GetAppliedManifestWork(w)
  BY DEF Sync!GetAppliedManifestWork, SP!GetAppliedManifestWork
<1>3. Sync!deleteGetWorkStatus(w) => SP!deleteGetWorkStatus(w)
  BY DEF Sync!deleteGetWorkStatus, SP!deleteGetWorkStatus
<1>4. Sync!deleteWorkStatus(w) => SP!deleteWorkStatus(w)
  BY DEF Sync!deleteWorkStatus, Sync!Copies, Sync!deleteFails,
     SP!deleteWorkStatus, SP!Copies, SP!deleteFails
<1>5. Sync!getWorkStatus(w) => SP!getWorkStatus(w)
  BY DEF Sync!getWorkStatus, SP!getWorkStatus
<1>6. Sync!GetManifestWork(w) => SP!GetManifestWork(w)
  BY DEF Sync!GetManifestWork, SP!GetManifestWork
<1>7. Sync!createWorkStatus(w) => SP!createWorkStatus(w)
  BY DEF Sync!createWorkStatus, Sync!Write, Sync!Copies,
     SP!createWorkStatus, SP!Write, SP!Copies
<1>8. Sync!patchWorkStatus(w) => SP!patchWorkStatus(w)
  BY DEF Sync!patchWorkStatus, Sync!NeedsPatch, Sync!Differs, Sync!statusField, Sync!Write, Sync!Copies,
     SP!patchWorkStatus, SP!NeedsPatch, SP!Differs, SP!statusField, SP!Write, SP!Copies
<1>9. Sync!updateStatus(w) => SP!updateStatus(w)
  BY DEF Sync!updateStatus, Sync!updateAccepted, Sync!Write, Sync!Copies,
     SP!updateStatus, SP!updateAccepted, SP!Write, SP!Copies
<1>10. Sync!hubRequestFails(w) => SP!hubRequestFails(w)
  BY DEF Sync!hubRequestFails, Sync!NeedsPatch, Sync!Differs,
     SP!hubRequestFails, SP!NeedsPatch, SP!Differs
<1>11. Sync!Retry(w) => SP!Retry(w)
  OBVIOUS
<1>12. Sync!WorkerStep(w) => SP!WorkerStep(w)
  <2> USE <1>1, <1>2, <1>3, <1>4, <1>5, <1>6, <1>7, <1>8, <1>9
  <2> QED
    BY DEF Sync!WorkerStep, SP!WorkerStep
<1> QED
  BY <1>10, <1>11, <1>12

(* Every step of the agent is a step of reporting, or one of those that    *)
(* ReportingProofs has for it: the informer starts or stops, the work      *)
(* comes or goes, or is made anew, or the object's resource is not known.  *)
Foreign ==
    \/ SP!startInformer \/ (SP!stopInformer /\ UNCHANGED objChanges)
    \/ SP!NewAppliedManifestWork
    \/ UNCHANGED <<object, objChanges, SP!queueVars, SP!hubVars, objWorker, SP!historyVars>>
    \/ \E w \in Workers :
          /\ SP!Busy(w) /\ SP!Retry(w)
          /\ UNCHANGED <<SP!clusterVars, listers[K] # 0, store, objEvents, objDirty, objPtrs,
                         SP!hubVars, SP!historyVars>>

LEMMA ReportingSteps == [AgentNext]_agentVars => SP!Next \/ Foreign
<1> SUFFICES ASSUME [AgentNext]_agentVars PROVE SP!Next \/ Foreign
  OBVIOUS
<1>1. ASSUME UNCHANGED syncVars, (listers'[K] = 0) = (listers[K] = 0)
      PROVE  Foreign
  BY <1>1 DEF Foreign, syncVars, reportVars, SP!queueVars, SP!hubVars, SP!historyVars
<1>2. CASE UNCHANGED agentVars
  BY <1>1, <1>2 DEF agentVars, vars, sharedVars, mapVars
<1>3. CASE WorkAgent
  <2>1. UNCHANGED listers
    BY <1>3 DEF WorkAgent, ApplyWork, DeleteWork, sharedVars, mapVars
  <2>2. UNCHANGED syncVars \/ Sync!NewAppliedManifestWork
    BY <1>3 DEF WorkAgent
  <2> QED
    BY <1>1, <2>1, <2>2, QueueSteps DEF Foreign
<1>4. CASE Cluster
  <2>1. CASE UNCHANGED syncVars /\ ChangeCRD(K)
    BY <1>1, <2>1 DEF ChangeCRD, sharedVars, mapVars
  <2>2. ASSUME NEW u \in UIDs,
               Sync!SetObject(u, objChanges + 1, 0, TRUE) \/ Sync!DeleteObject(u)
        PROVE  SP!Next
    <3>1. SP!SetObject(u, objChanges + 1, 0, TRUE) \/ SP!DeleteObject(u)
      BY <2>2, ClusterSteps
    <3>2. SP!Environment
      BY <3>1 DEF SP!Environment
    <3> QED
      BY <3>2 DEF SP!Next
  <2> QED
    BY <1>4, <2>1, <2>2 DEF Cluster
<1>5. CASE RegistryStep /\ SyncFollows
  <2>1. \/ (listers'[K] = 0) = (listers[K] = 0) /\ UNCHANGED syncVars
        \/ SP!startInformer
        \/ SP!stopInformer /\ UNCHANGED objChanges
    BY <1>5, QueueSteps DEF SyncFollows
  <2> QED
    BY <1>1, <2>1 DEF Foreign
<1>6. CASE AgentCrash
  BY <1>1, <1>6 DEF AgentCrash, Crash, sharedVars, mapVars
<1>7. CASE Restarts
  <2>1. SP!Environment
    BY <1>7, QueueSteps DEF Restarts, SP!Environment
  <2> QED
    BY <2>1 DEF SP!Next
<1>8. CASE SyncStep
  <2>1. ASSUME NEW w \in Workers, GetGVRFails(w)
        PROVE  Foreign
    <3>1. SP!Busy(w) /\ SP!Retry(w)
      BY <2>1, WorkerSteps DEF GetGVRFails, SP!Busy
    <3>2. UNCHANGED <<present, listers>>
      BY <1>8 DEF SyncStep, vars, outerVars, clusterVars, sharedVars, mapVars
    <3>3. UNCHANGED <<SP!clusterVars, listers[K] # 0, store, objEvents, objDirty, objPtrs,
                      SP!hubVars, SP!historyVars>>
      BY <2>1, <3>2 DEF GetGVRFails, SP!clusterVars, SP!hubVars, SP!historyVars
    <3> QED
      BY <3>1, <3>3 DEF Foreign
  <2>2. ASSUME NEW w \in Workers, Sync!WorkerStep(w)
        PROVE  SP!Next
    BY <2>2, WorkerSteps DEF SP!Next
  <2>3. ASSUME NEW u \in UIDs, Sync!informerAdds(u) \/ Sync!enqueueObject(u)
        PROVE  SP!Next
    BY <2>3, ClusterSteps DEF SP!Next
  <2>4. ASSUME NEW k \in objWaiting, Sync!AddRateLimitedFires(k)
        PROVE  SP!Next
    BY <2>4, QueueSteps DEF SP!Next
  <2> QED
    BY <1>8, <2>1, <2>2, <2>3, <2>4 DEF SyncStep
<1>9. CASE HubFailure
  <2>1. PICK w \in Workers : Sync!hubRequestFails(w)
    BY <1>9 DEF HubFailure
  <2> QED
    BY <2>1, WorkerSteps DEF SP!Next
<1> QED
  BY <1>2, <1>3, <1>4, <1>5, <1>6, <1>7, <1>8, <1>9 DEF AgentNext

(* The objects and the ManifestWork stay KubeStellar's.                    *)
LEMMA ManagedKept ==
    ASSUME ManagedByKS, SP!TypeOK, [AgentNext]_agentVars
    PROVE  ManagedByKS'
<1>1. ASSUME UNCHANGED <<object, mw>> PROVE ManagedByKS'
  BY <1>1 DEF ManagedByKS
<1>2. CASE Cluster
  <2>1. object \in [UIDs -> SP!Object]
    BY DEF SP!TypeOK
  <2>2. ASSUME NEW u \in UIDs, Sync!SetObject(u, objChanges + 1, 0, TRUE)
        PROVE  ManagedByKS'
    BY <2>1, <2>2 DEF ManagedByKS, Sync!SetObject, Sync!hubVars
  <2>3. ASSUME NEW u \in UIDs, Sync!DeleteObject(u)
        PROVE  ManagedByKS'
    BY <2>1, <2>3 DEF ManagedByKS, Sync!DeleteObject, Sync!Gone, Sync!hubVars
  <2> QED
    BY <1>1, <1>2, <2>2, <2>3 DEF Cluster, syncVars, reportVars
<1>3. CASE UNCHANGED agentVars \/ WorkAgent \/ AgentCrash
  BY <1>1, <1>3 DEF agentVars, syncVars, reportVars, WorkAgent, AgentCrash,
     Sync!NewAppliedManifestWork
<1>4. CASE SyncFollows \/ Restarts
  BY <1>1, <1>4 DEF SyncFollows, Restarts, syncVars, reportVars, Sync!startInformer,
     Sync!stopInformer, Sync!Restart, Sync!clusterVars, Sync!hubVars
<1>5. CASE SyncStep \/ HubFailure
  <2>1. ASSUME NEW w \in Workers, Sync!WorkerStep(w) PROVE UNCHANGED <<object, mw>>
    BY <2>1 DEF Sync!WorkerStep, Sync!reconcile, Sync!GetAppliedManifestWork,
       Sync!deleteGetWorkStatus, Sync!deleteWorkStatus, Sync!getWorkStatus,
       Sync!GetManifestWork, Sync!createWorkStatus, Sync!patchWorkStatus,
       Sync!updateStatus, Sync!clusterVars, Sync!hubVars
  <2>2. ASSUME NEW u \in UIDs, Sync!informerAdds(u) \/ Sync!enqueueObject(u)
        PROVE  UNCHANGED <<object, mw>>
    BY <2>2 DEF Sync!informerAdds, Sync!enqueueObject, Sync!clusterVars, Sync!hubVars
  <2>3. ASSUME NEW k \in objWaiting, Sync!AddRateLimitedFires(k)
        PROVE  UNCHANGED <<object, mw>>
    BY <2>3 DEF Sync!AddRateLimitedFires, Sync!clusterVars, Sync!hubVars
  <2>4. ASSUME NEW w \in Workers, GetGVRFails(w) \/ Sync!hubRequestFails(w)
        PROVE  UNCHANGED <<object, mw>>
    BY <2>4 DEF GetGVRFails, Sync!hubRequestFails, Sync!clusterVars
  <2> QED
    BY <1>1, <1>5, <2>1, <2>2, <2>3, <2>4 DEF SyncStep, HubFailure
<1> QED
  BY <1>2, <1>3, <1>4, <1>5 DEF AgentNext

(* Every step keeps the invariant of both halves.                          *)
LEMMA NextAgentInv ==
    ASSUME Pace = "stepwise", AgentInv, [AgentNext]_agentVars
    PROVE  AgentInv'
<1>1. [Next]_vars
  BY RegistrySteps
<1>2. SP!Inv /\ SP!CopiesOK /\ SP!OnItsWay
  BY DEF AgentInv
<1>3. SInv' /\ ListOK' /\ ManagedByKS'
  BY <1>1, <1>2, StepwiseOrderly, NextSInv, ListKept, ManagedKept DEF AgentInv, SInv, Inv, SP!Inv
<1>4. /\ None \notin UIDs /\ MaxObjectChanges \in Nat /\ MaxFailures \in Nat
      /\ {0} \subseteq Nat /\ {TRUE} \subseteq BOOLEAN
      /\ TRUE \in BOOLEAN /\ FALSE \in BOOLEAN
  BY ConstantsAssumption, AgentAssumption
<1> SUFFICES SP!Inv' /\ SP!CopiesOK' /\ SP!OnItsWay'
  BY <1>3 DEF AgentInv
<1>5. CASE SP!Next
  <2>1. SP!Inv'
    BY <1>2, <1>4, <1>5, SP!NextInv
  <2> QED
    BY <1>2, <1>4, <1>5, <2>1, SP!NextOnItsWay
<1>6. CASE SP!startInformer \/ (SP!stopInformer /\ UNCHANGED objChanges)
  BY <1>2, <1>4, <1>6, SP!InformerOnItsWay
<1>7. CASE SP!NewAppliedManifestWork
  BY <1>2, <1>4, <1>7, SP!NewWorkOnItsWay
<1>8. CASE UNCHANGED <<object, objChanges, SP!queueVars, SP!hubVars, objWorker, SP!historyVars>>
  BY <1>2, <1>4, <1>8, SP!WorkOnItsWay
<1>9. ASSUME NEW w \in Workers, SP!Busy(w), SP!Retry(w),
             UNCHANGED <<SP!clusterVars, listers[K] # 0, store, objEvents, objDirty, objPtrs,
                         SP!hubVars, SP!historyVars>>
      PROVE  SP!Inv' /\ SP!CopiesOK' /\ SP!OnItsWay'
  BY <1>2, <1>4, <1>9, SP!RetryOnItsWay
<1> QED
  BY <1>5, <1>6, <1>7, <1>8, <1>9, ReportingSteps DEF Foreign

(* When the agent has nothing left to do, the registry watches what the    *)
(* work lists, so what reporting has yet to report would be on its way.    *)
LEMMA QuietReported == AgentInv => ListedObjectsReported
<1> SUFFICES ASSUME AgentInv, Quiet, Sync!Settled, Mapped(K),
                    NEW u \in (applied[AW] \cap Live) \ objOverlapped
             PROVE  Sync!Reported(u)
  BY DEF ListedObjectsReported, Rests
<1>1. AW \in Works /\ K \in Kinds \ Excluded /\ u \in UIDs /\ KindOf[u] = K
  BY ConstantsAssumption, AgentAssumption DEF Live
<1>2. AW \in present /\ tracked[AW] = applied[AW]
  BY <1>1, QuietCalm DEF AgentInv, SInv, ListOK, Different
<1>3. count[K] # {}
  <2>1. u \in TrackedOf(K)
    BY <1>1, <1>2 DEF TrackedOf
  <2> QED
    BY <1>1, <2>1, QuietCounted DEF AgentInv, Mapped
<1>4. listers[K] # 0
  BY <1>1, <1>3, QuietCounted DEF AgentInv, Steady, Up
<1>5. SP!Settled
  BY DEF Sync!Settled, Sync!Blocked, Sync!Differs, SP!Settled, SP!Blocked, SP!Differs
<1>6. SP!Alone(u) /\ object[u].exists /\ object[u].owned /\ mw # "absent"
  BY <1>1 DEF AgentInv, ManagedByKS, Live, SP!Alone
<1>7. /\ None \notin UIDs /\ MaxObjectChanges \in Nat /\ MaxFailures \in Nat
      /\ {0} \subseteq Nat /\ {TRUE} \subseteq BOOLEAN
      /\ TRUE \in BOOLEAN /\ FALSE \in BOOLEAN
  BY ConstantsAssumption, AgentAssumption
<1>8. SP!Reported(u)
  BY <1>1, <1>2, <1>4, <1>5, <1>6, <1>7, SP!SettledReported DEF AgentInv
<1> QED
  BY <1>8 DEF SP!Reported, SP!Differs, Sync!Reported, Sync!Differs
-----------------------------------------------------------------------------
(* The whole agent is an InformerRegistry: what is proved of that holds    *)
(* of its works, maps and goroutines whatever reporting does.              *)
THEOREM AgentIsRegistry == AgentSpec => Spec
  BY RegistrySteps, PTL DEF AgentSpec, AgentInit, Spec

(* What the agent is for: while works change one step at a time, once the  *)
(* agent has nothing left to do the hub has the latest status of every     *)
(* object its work lists, whatever was deleted, stopped, failed, panicked  *)
(* or made anew before, for any number of objects, workers and goroutines, *)
(* unless two workers were at the object since the last start.             *)
THEOREM ListedReported ==
    ASSUME Pace = "stepwise"
    PROVE  AgentSpec => []ListedObjectsReported
  BY InitAgentInv, NextAgentInv, QuietReported, PTL DEF AgentSpec
=============================================================================
