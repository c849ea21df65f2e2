---------------------------- MODULE StatusAgent -----------------------------
(***************************************************************************)
(* The whole agent, for one AppliedManifestWork and its objects of one     *)
(* kind: InformerRegistry decides whether the kind's informer runs, and    *)
(* WorkStatusSync, whose lister is the registry's, reports what that       *)
(* informer sees.  Both take keys from one queue and share the workers.    *)
(* An object is a UID here: one that is deleted does not come back.  The   *)
(* ManifestWork lives on; how it ends is in WorkStatusSync.                *)
(***************************************************************************)
EXTENDS InformerRegistry

CONSTANTS
    AW, K,             \* the work and the kind: Works = {AW}, Kinds = {K}
    MaxObjectChanges,  \* bound on changes of objects
    MaxFailures        \* bound on failed hub requests and restarts

ASSUME AgentAssumption ==
    /\ Works = {AW} /\ Kinds = {K} /\ K \notin Excluded
    /\ MayList[AW] = UIDs
    /\ MaxObjectChanges \in Nat /\ MaxFailures \in Nat

VARIABLES
    object, objChanges, retired,                        \* the objects; UIDs used up
    store, objEvents, objDirty, objWaiting, objPtrs,    \* informer and queue
    mw, ws, failures,                                   \* the hub
    objWorker,
    objOverlapped, objMissed                            \* history

reportVars == <<object, objChanges, store, objEvents, objDirty, objWaiting, objPtrs,
                mw, ws, failures, objWorker, objOverlapped, objMissed>>
syncVars   == <<reportVars, retired>>
agentVars  == <<vars, syncVars>>

(* Every object has its owner and the ManifestWork its label; any object   *)
(* may come to be taken for deleted.                                       *)
Sync == INSTANCE WorkStatusSync WITH
    Objects <- UIDs, Labels <- {0}, Owners <- {TRUE}, Deletions <- TRUE,
    Relabels <- FALSE, WorkEnds <- FALSE, InformerStops <- TRUE, DeleteMayFail <- TRUE,
    Crashes <- TRUE, MaxChanges <- MaxObjectChanges,
    aw <- AW \in present, lister <- listers[K] # 0,
    owners <- [u \in UIDs |-> {TRUE}], changes <- objChanges, events <- objEvents,
    dirty <- objDirty, waiting <- objWaiting, ptrs <- objPtrs, worker <- objWorker,
    managed <- (mw = "ks"), doubtful <- {u \in UIDs : TRUE},
    overlapped <- objOverlapped, skipped <- {}, missed <- objMissed
-----------------------------------------------------------------------------
Live == {u \in UIDs : object[u].exists}

(* The work agent lists what it has created and drops what is gone; it may *)
(* delete the AppliedManifestWork and make it again, with another UID and  *)
(* so with other WorkStatus names.  Pace says which lists may follow one   *)
(* another.                                                                *)
WorkAgent ==
    \/ \E L \in SUBSET UIDs :
          /\ L \ applied[AW] \subseteq Live
          /\ Live \cap applied[AW] \subseteq L
          /\ ApplyWork(AW, L)
          /\ \/ AW \in present /\ UNCHANGED syncVars
             \/ AW \notin present /\ Sync!NewAppliedManifestWork /\ UNCHANGED retired
    \/ DeleteWork(AW) /\ UNCHANGED syncVars

(* Objects come and go while their kind is served, and the kind goes only  *)
(* with all its objects.  What changes between close(stopper) and          *)
(* listers.Delete is left out: the stopped informer would not see it.      *)
Cluster ==
    \/ /\ UNCHANGED vars
       /\ store # {} => listers[K] \in running[K]
       /\ \E u \in UIDs \ retired :
             \/ /\ K \in served
                /\ Sync!SetObject(u, objChanges + 1, 0, TRUE)
                /\ UNCHANGED retired
             \/ Sync!DeleteObject(u) /\ retired' = retired \cup {u}
    \/ /\ K \in served => Live = {}
       /\ ChangeCRD(K) /\ UNCHANGED syncVars

(* One step of the registry; what it does to listers starts or ends what   *)
(* WorkStatusSync knows as the informer.                                   *)
RegistryStep ==
    \/ enqueueObject(AW)
    \/ \E k \in waiting : AddRateLimitedFires(k)
    \/ \E w \in Workers : objWorker[w].pc = "idle" /\ WorkerStep(w)
    \/ \E s \in Starters : StarterStep(s)

SyncFollows ==
    \/ (listers'[K] = 0) = (listers[K] = 0) /\ UNCHANGED syncVars
    \/ Sync!startInformer /\ UNCHANGED retired
    \/ Sync!stopInformer /\ UNCHANGED <<objChanges, retired>>

(* The process is evicted, or reporting panics: handleObject, when it is   *)
(* handed a tombstone, and handleWorkStatus, when the restMapper is nil.   *)
AgentCrash == Crash /\ UNCHANGED syncVars

Restarts == Restart /\ Sync!Restart /\ UNCHANGED retired

(* Create needs the resource of the object's kind (GetGVR): an error if    *)
(* the restMapper does not know it, a panic if there is none.              *)
KindKnown == mapper.ok /\ K \in mapper.kinds

GetGVRFails(w) ==
    /\ objWorker[w].pc = "create" /\ mapper.ok /\ ~KindKnown
    /\ Sync!Retry(w)
    /\ UNCHANGED <<object, objChanges, store, objEvents, objDirty, objPtrs, mw, ws,
                   failures, objOverlapped, objMissed>>

(* One step of reporting.  An informer that is not running sees nothing.   *)
SyncStep ==
    /\ up /\ UNCHANGED <<vars, retired>>
    /\ \/ \E u \in UIDs :
             \/ listers[K] \in running[K] /\ Sync!informerAdds(u)
             \/ Sync!enqueueObject(u)
       \/ \E k \in objWaiting : Sync!AddRateLimitedFires(k)
       \/ \E w \in Workers :
             \/ /\ worker[w].pc = "idle" /\ (objWorker[w].pc = "create" => KindKnown)
                /\ Sync!WorkerStep(w)
             \/ GetGVRFails(w)

HubFailure ==
    /\ up /\ UNCHANGED <<vars, retired>>
    /\ \E w \in Workers : Sync!hubRequestFails(w)
-----------------------------------------------------------------------------
AgentInit ==
    /\ Init
    /\ object = [u \in UIDs |-> Sync!Gone] /\ objChanges = 0 /\ retired = {}
    /\ store = {} /\ objEvents = [u \in UIDs |-> 0]
    /\ objDirty = {} /\ objWaiting = {} /\ objPtrs = 0
    /\ mw = "ks" /\ ws = [u \in UIDs |-> Sync!NoWS] /\ failures = 0
    /\ objWorker = [w \in Workers |-> Sync!IdleWorker]
    /\ objOverlapped = {} /\ objMissed = {}

AgentNext ==
    \/ WorkAgent
    \/ Cluster
    \/ RegistryStep /\ SyncFollows
    \/ AgentCrash
    \/ Restarts
    \/ SyncStep
    \/ HubFailure

AgentSpec == AgentInit /\ [][AgentNext]_agentVars
-----------------------------------------------------------------------------
(* Properties.                                                             *)

(* The agent has nothing left to do.  A key whose Create fails because the *)
(* restMapper does not know the kind is still something to do.             *)
Rests == up /\ Quiet /\ Sync!Settled

(* What the agent is for: when it has nothing left to do, the hub has the  *)
(* latest status of every object that a KubeStellar work lists, whatever   *)
(* starting and stopping of informers, failing and restarting came before. *)
(* Excepted are objects that two workers have been at, at one time, since  *)
(* the start, and objects whose kind the restMapper did not know.          *)
ListedObjectsReported ==
    Rests /\ Mapped(K) =>
        \A u \in (applied[AW] \cap Live) \ objOverlapped : Sync!Reported(u)

(* A notification whose object is not in the lister's store "means it has  *)
(* been deleted" (pkg/agent/agent.go:203), so that no object a work lists  *)
(* loses its WorkStatus: "all workstatuses are present on the hub" once    *)
(* the agent has nothing left to do (test/e2e/README.md:18).               *)
AllListedReported ==
    Rests /\ Mapped(K) => \A u \in applied[AW] \cap Live : Sync!Reported(u)
=============================================================================
