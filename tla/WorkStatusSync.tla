--------------------------- MODULE WorkStatusSync ---------------------------
(***************************************************************************)
(* How the agent mirrors the status of workload objects to WorkStatus      *)
(* objects on the hub (handleWorkStatus), for the objects of one kind that *)
(* one AppliedManifestWork delivers.                                       *)
(*                                                                         *)
(* Each request to the hub is one action; between two requests the         *)
(* cluster, the other workers and the hub's garbage collector may act.     *)
(***************************************************************************)
EXTENDS Naturals

CONSTANTS
    Objects,       \* workload objects of the kind, by namespace and name
    Workers,       \* worker goroutines of Agent.run
    None,          \* no object
    Labels,        \* values of the singleton label, 0 if there is none
    Owners,        \* may an AppliedManifestWork own an object? may none?
    Deletions,     \* may objects be deleted?
    Relabels,      \* may the ManifestWork gain and lose its KubeStellar label?
    WorkEnds,      \* may the ManifestWork be deleted?
    InformerStops, \* may the kind's informer be stopped and started again?
    DeleteMayFail, \* may the hub fail a Delete request?
    Crashes,       \* may the agent crash and be started again?
    MaxChanges,    \* bound on changes of objects and labels and on informer stops
    MaxFailures    \* bound on failed hub requests and crashes

ASSUME ConstantsAssumption ==
    /\ None \notin Objects
    /\ Labels \subseteq Nat /\ Owners \subseteq BOOLEAN
    /\ Deletions \in BOOLEAN /\ Relabels \in BOOLEAN /\ WorkEnds \in BOOLEAN
    /\ InformerStops \in BOOLEAN /\ DeleteMayFail \in BOOLEAN
    /\ Crashes \in BOOLEAN
    /\ MaxChanges \in Nat /\ MaxFailures \in Nat

VARIABLES
    \* The managed cluster.
    object,   \* object -> [exists, ver, label, owned]; ver 0 is a missing status field
    owners,   \* object -> was it owned? for every version it has had
    aw,       \* is the AppliedManifestWork in its informer's cache?
    changes,  \* changes of objects and labels, and informer stops, so far
    \* The kind's informer and the work queue.
    lister,   \* is there an entry in listers?
    store,    \* objects in the informer's store
    events,   \* object -> notifications whose handler has not run yet
    dirty, waiting, ptrs, \* as in InformerRegistry
    \* The hub.
    mw,       \* the ManifestWork: "absent", "ks" or "plain" (no KubeStellar label)
    ws,       \* object -> its WorkStatus, [exists, status, label]
    failures, \* hub requests failed, and crashes, so far
    worker,
    \* History variables; no action reads them.
    managed,    \* has the ManifestWork had a KubeStellar label?
    doubtful,   \* objects deleted, or notified of when their informer was stopped
    overlapped, \* objects two workers were at, at one time, since the start
    skipped,    \* objects last looked at when the ManifestWork had no label
    missed      \* objects whose deletion the agent could not see or carry out

clusterVars == <<object, owners, aw, changes>>
queueVars   == <<lister, store, events, dirty, waiting, ptrs>>
hubVars     == <<mw, ws, failures>>
historyVars == <<managed, doubtful, overlapped, skipped, missed>>
vars        == <<clusterVars, queueVars, hubVars, worker, historyVars>>
-----------------------------------------------------------------------------
Key        == (Objects \cup {None}) \X Nat
Object     == [exists : BOOLEAN, ver : Nat, label : Nat, owned : BOOLEAN]
WorkStatus == [exists : BOOLEAN, status : Nat, label : Nat]

Gone  == [exists |-> FALSE, ver |-> 0, label |-> 0, owned |-> FALSE]
NoWS  == [exists |-> FALSE, status |-> 0, label |-> 0]
NoKey == <<None, 0>>

PC == {"idle", "aw", "delGet", "delete", "get", "getMW", "create", "patch",
       "status"}

\* obj is the copy the lister returned, label and fresh describe the local
\* copy of the WorkStatus: its label, and whether its resourceVersion is still
\* that of the hub.
WorkerState == [pc : PC, key : Key, gone : BOOLEAN, obj : Object,
                label : Nat, fresh : BOOLEAN]
IdleWorker  == [pc |-> "idle", key |-> NoKey, gone |-> FALSE, obj |-> Gone,
                label |-> 0, fresh |-> FALSE]

TypeOK ==
    /\ object \in [Objects -> Object]
    /\ owners \in [Objects -> SUBSET BOOLEAN]
    /\ aw \in BOOLEAN
    /\ changes \in Nat
    /\ lister \in BOOLEAN
    /\ store \subseteq Objects
    /\ events \in [Objects -> Nat]
    /\ dirty \subseteq Objects \X Nat
    /\ waiting \subseteq Objects \X Nat
    /\ ptrs \in Nat
    /\ mw \in {"absent", "ks", "plain"}
    /\ ws \in [Objects -> WorkStatus]
    /\ failures \in Nat
    /\ worker \in [Workers -> WorkerState]
    /\ managed \in BOOLEAN
    /\ doubtful \subseteq Objects /\ overlapped \subseteq Objects
    /\ skipped \subseteq Objects /\ missed \subseteq Objects

(* The keys workers hold: Get does not hand them out until they are Done.  *)
\* Mutant: Done is called before reconcile.
DoneEarly  == {}
processing == {worker[w].key : w \in Workers}
Of(w)      == worker[w].key[1]

(* The WorkStatus lacks the label its object has, or has another value.    *)
Differs(label, obj) == obj.label # 0 /\ label # obj.label

(* A retry of the key fails again until the cluster or the hub changes: no *)
(* AppliedManifestWork, no ManifestWork to own a new WorkStatus, or an     *)
(* object without a status field.                                          *)
Blocked(k) ==
    LET o == k[1] IN
    \/ ~aw
    \/ object[o].exists /\ ~ws[o].exists /\ mw = "absent"
    \/ /\ object[o].exists /\ ws[o].exists /\ object[o].ver = 0
       /\ ~Differs(ws[o].label, object[o])

(* The agent has nothing left to do until something changes.               *)
Settled ==
    /\ \A o \in Objects : events[o] = 0 /\ (lister /\ object[o].exists => o \in store)
    /\ dirty = {} /\ \A k \in waiting : Blocked(k)
    /\ \A w \in Workers : worker[w].pc = "idle"
-----------------------------------------------------------------------------
(* The managed cluster and the hub, as far as others change them.          *)
MayChange == changes < MaxChanges

(* The informer notifies of a change of what its store has.                *)
Notify(o) ==
    events' = IF o \in store THEN [events EXCEPT ![o] = @ + 1] ELSE events

(* An object is created or updated: a new status, or none at all so far,   *)
(* and any label and owner.                                                *)
SetObject(o, v, l, own) ==
    /\ MayChange
    /\ v = changes + 1 \/ (v = 0 /\ object[o].ver = 0)
    /\ object' = [object EXCEPT ![o] =
          [exists |-> TRUE, ver |-> v, label |-> l, owned |-> own]]
    /\ object' # object
    /\ owners' = [owners EXCEPT ![o] = @ \cup {own}]
    /\ Notify(o)
    /\ changes' = changes + 1
    /\ UNCHANGED <<aw, lister, store, dirty, waiting, ptrs, hubVars, worker, historyVars>>

DeleteObject(o) ==
    /\ Deletions /\ MayChange /\ object[o].exists
    /\ object' = [object EXCEPT ![o] = Gone]
    /\ store' = store \ {o}
    /\ Notify(o)
    /\ changes' = changes + 1
    /\ doubtful' = doubtful \cup {o}
    /\ missed' = IF o \in store THEN missed ELSE missed \cup {o}
    /\ UNCHANGED <<owners, aw, lister, dirty, waiting, ptrs, hubVars, worker,
                   managed, overlapped, skipped>>

(* The copies workers have of o's WorkStatus, after a write of s.  A write *)
(* that changes nothing leaves the resourceVersion as it is.               *)
Copies(o, s) == [w \in Workers |->
    [worker[w] EXCEPT !.fresh = @ /\ (ws[o] = s \/ Of(w) # o)]]

DeleteManifestWork ==
    /\ WorkEnds /\ mw # "absent"
    /\ mw' = "absent"
    /\ UNCHANGED <<clusterVars, queueVars, ws, failures, worker, historyVars>>

(* The ManifestWork gets a KubeStellar label or loses the one it has.  No  *)
(* informer of this agent sees that.                                       *)
RelabelManifestWork ==
    /\ Relabels /\ MayChange /\ mw # "absent"
    /\ mw' = IF mw = "ks" THEN "plain" ELSE "ks"
    /\ managed' = TRUE
    /\ changes' = changes + 1
    /\ UNCHANGED <<object, owners, aw, queueVars, ws, failures, worker,
                   doubtful, overlapped, skipped, missed>>

(* The work agent removes the AppliedManifestWork of a deleted             *)
(* ManifestWork; this agent may see that before it sees the objects go.    *)
RemoveAppliedManifestWork ==
    /\ mw = "absent" /\ aw
    /\ aw' = FALSE
    /\ UNCHANGED <<object, owners, changes, queueVars, hubVars, worker, historyVars>>

(* Garbage collection of dependents of the ManifestWork.                   *)
GarbageCollect(o) ==
    /\ mw = "absent" /\ ws[o].exists
    /\ ws' = [ws EXCEPT ![o] = NoWS]
    /\ worker' = Copies(o, NoWS)
    /\ UNCHANGED <<clusterVars, queueVars, mw, failures, historyVars>>
-----------------------------------------------------------------------------
(* The kind's informer.  startInformer publishes the lister before the     *)
(* informer runs and nobody waits for its store to be filled; the store is *)
(* filled object by object.  The informer is stopped when no work lists an *)
(* object of the kind, whatever objects there are; which handlers have not *)
(* run by then, run later.                                                 *)
startInformer ==
    /\ ~lister
    /\ lister' = TRUE /\ store' = {}
    /\ UNCHANGED <<clusterVars, events, dirty, waiting, ptrs, hubVars, worker,
                   historyVars>>

informerAdds(o) ==
    /\ lister /\ object[o].exists /\ o \notin store
    /\ store' = store \cup {o}
    /\ events' = [events EXCEPT ![o] = @ + 1]
    /\ missed' = missed \ {o}
    /\ UNCHANGED <<clusterVars, lister, dirty, waiting, ptrs, hubVars, worker,
                   managed, doubtful, overlapped, skipped>>

stopInformer ==
    /\ lister
    /\ lister' = FALSE /\ store' = {}
    /\ doubtful' = doubtful \cup {o \in Objects : events[o] > 0}
    /\ UNCHANGED <<object, owners, aw, events, dirty, waiting, ptrs, hubVars, worker,
                   managed, overlapped, skipped, missed>>

\* Mutant: a deletion is queued like an update, without a DeletedObject.
enqueueAsUpdate(o) ==
    /\ events[o] > 0
    /\ events' = [events EXCEPT ![o] = @ - 1]
    /\ dirty' = IF lister THEN dirty \cup {<<o, 0>>} ELSE dirty
    /\ missed' = IF lister THEN missed ELSE missed \cup {o}
    /\ UNCHANGED <<clusterVars, lister, store, waiting, ptrs, hubVars, worker,
                   managed, doubtful, overlapped, skipped>>

(* The handler looks the object up as it is now; what it does not find it  *)
(* takes for deleted.  Without a lister it logs an error and drops the     *)
(* event.                                                                  *)
enqueueObject(o) ==
    /\ events[o] > 0
    /\ events' = [events EXCEPT ![o] = @ - 1]
    /\ \/ /\ ~lister
          /\ missed' = missed \cup {o}
          /\ UNCHANGED <<dirty, ptrs>>
       \/ /\ lister /\ o \in store
          /\ dirty' = dirty \cup {<<o, 0>>}
          /\ UNCHANGED <<ptrs, missed>>
       \/ /\ lister /\ o \notin store
          /\ ptrs' = ptrs + 1
          /\ dirty' = dirty \cup {<<o, ptrs'>>}
          /\ UNCHANGED missed
    /\ UNCHANGED <<clusterVars, lister, store, waiting, hubVars, worker,
                   managed, doubtful, overlapped, skipped>>

AddRateLimitedFires(k) ==
    /\ k \in waiting
    /\ waiting' = waiting \ {k}
    /\ dirty' = dirty \cup {k}
    /\ UNCHANGED <<clusterVars, lister, store, events, ptrs, hubVars, worker,
                   historyVars>>
-----------------------------------------------------------------------------
(* workqueue.Get and the lookup at the start of reconcile.                 *)
Begin(w, k, gone, obj) ==
    /\ worker' = [worker EXCEPT ![w] =
          [IdleWorker EXCEPT !.pc = "aw", !.key = k, !.gone = gone, !.obj = obj]]
    /\ overlapped' = IF \E v \in Workers : Of(v) = k[1]
                     THEN overlapped \cup {k[1]} ELSE overlapped
    /\ skipped' = skipped \ {k[1]}
    /\ UNCHANGED missed

(* No lister, no owner, or an object that is gone without a delete event.  *)
Drop(k) ==
    /\ missed' = IF ~lister \/ (k[1] \notin store /\ k[2] # 0)
                 THEN missed \cup {k[1]} ELSE missed
    /\ UNCHANGED <<worker, overlapped, skipped>>

(* A DeletedObject has the owners of the version its notification was of.  *)
reconcile(w, k) ==
    LET o == k[1] IN
    /\ worker[w].pc = "idle" /\ k \in dirty \ processing
    /\ dirty' = dirty \ {k}
    /\ \/ /\ lister /\ o \in store /\ object[o].owned
          /\ Begin(w, k, FALSE, object[o])
       \/ /\ lister /\ o \notin store /\ k[2] # 0 /\ TRUE \in owners[o]
          /\ Begin(w, k, TRUE, Gone)
       \/ /\ \/ ~lister
             \/ o \in store /\ ~object[o].owned
             \/ o \notin store /\ (k[2] = 0 \/ FALSE \in owners[o])
          /\ Drop(k)
    /\ UNCHANGED <<clusterVars, lister, store, events, waiting, ptrs, hubVars,
                   managed, doubtful>>

(* reconcile returns nil: Forget and Done.                                 *)
Done(w) == worker' = [worker EXCEPT ![w] = IdleWorker]

(* reconcile returns an error: AddRateLimited and Done.                    *)
\* Mutant: the key is forgotten.
Forgotten(w) == UNCHANGED waiting
\* Mutant: the worker's key is cleared before it is put back.
RequeueCleared(w) == waiting' = waiting \cup {IdleWorker.key}
Requeue(w) == waiting' = waiting \cup {worker[w].key}
Retry(w)   == Requeue(w) /\ Done(w)

Goto(w, pc) == worker' = [worker EXCEPT ![w].pc = pc]

GetAppliedManifestWork(w) ==
    /\ worker[w].pc = "aw"
    /\ \/ ~aw /\ Retry(w)
       \/ /\ aw
          /\ Goto(w, IF worker[w].gone THEN "delGet" ELSE "get")
          /\ UNCHANGED waiting
    /\ UNCHANGED <<clusterVars, lister, store, events, dirty, ptrs, hubVars,
                   historyVars>>

HubFails == failures < MaxFailures /\ failures' = failures + 1

(* The patch request is sent only if the label has to be added or changed. *)
\* Mutant: a label is changed and never added.
NeverPatched(w) == worker[w].label # 0 /\ Differs(worker[w].label, worker[w].obj)
NeedsPatch(w) == Differs(worker[w].label, worker[w].obj)

(* The hub fails a request it has not carried out: reconcile returns the   *)
(* error.  Deleting is different, see below.                               *)
hubRequestFails(w) ==
    /\ worker[w].pc \in {"delGet", "get", "getMW", "create", "patch", "status"}
    /\ worker[w].pc = "patch" => NeedsPatch(w)
    /\ HubFails
    /\ Retry(w)
    /\ UNCHANGED <<clusterVars, lister, store, events, dirty, ptrs, mw, ws,
                   historyVars>>

(* A request that changes o's WorkStatus to s: carried out and answered,   *)
(* after which the worker is in state next, or carried out with the answer *)
(* lost, which is an error like any other.                                 *)
Write(w, s, next) ==
    LET o == Of(w) IN
    /\ ws' = [ws EXCEPT ![o] = s]
    /\ \/ /\ worker' = [Copies(o, s) EXCEPT ![w] = next]
          /\ UNCHANGED <<waiting, failures>>
       \/ /\ HubFails
          /\ worker' = [Copies(o, s) EXCEPT ![w] = IdleWorker]
          /\ Requeue(w)
-----------------------------------------------------------------------------
(* handleWorkStatus, the object is being deleted.  Found or not, the       *)
(* WorkStatus is deleted by name.                                          *)
deleteGetWorkStatus(w) ==
    /\ worker[w].pc = "delGet"
    /\ Goto(w, "delete")
    /\ UNCHANGED <<clusterVars, queueVars, hubVars, historyVars>>

(* Any error of Delete is taken to mean "was previously deleted".          *)
deleteFails == DeleteMayFail /\ HubFails

deleteWorkStatus(w) ==
    /\ worker[w].pc = "delete"
    /\ \/ /\ ws' = [ws EXCEPT ![Of(w)] = NoWS]
          /\ worker' = [Copies(Of(w), NoWS) EXCEPT ![w] = IdleWorker]
          /\ UNCHANGED <<failures, missed>>
       \/ /\ deleteFails /\ Done(w)
          /\ missed' = missed \cup {Of(w)}
          /\ UNCHANGED ws
    /\ UNCHANGED <<clusterVars, queueVars, mw, managed, doubtful, overlapped, skipped>>
-----------------------------------------------------------------------------
(* handleWorkStatus, the object exists.                                    *)
getWorkStatus(w) ==
    /\ worker[w].pc = "get"
    /\ worker' = [worker EXCEPT ![w] =
          IF ws[Of(w)].exists
          THEN [@ EXCEPT !.pc = "patch", !.label = ws[Of(w)].label, !.fresh = TRUE]
          ELSE [@ EXCEPT !.pc = "getMW"]]
    /\ UNCHANGED <<clusterVars, queueVars, hubVars, historyVars>>

\* Mutant: the labels of the ManifestWork are not looked at.
GetAnyManifestWork(w) ==
    /\ worker[w].pc = "getMW"
    /\ \/ mw = "absent" /\ Retry(w)
       \/ mw # "absent" /\ Goto(w, "create") /\ UNCHANGED waiting
    /\ UNCHANGED <<clusterVars, lister, store, events, dirty, ptrs, hubVars, historyVars>>

(* Without a KubeStellar label there is nothing to do.  With one, the      *)
(* label is not looked at again: not before Create, nor later.             *)
GetManifestWork(w) ==
    /\ worker[w].pc = "getMW"
    /\ \/ mw = "absent" /\ Retry(w) /\ UNCHANGED skipped
       \/ /\ mw = "plain" /\ Done(w)
          /\ skipped' = skipped \cup {Of(w)}
          /\ UNCHANGED waiting
       \/ mw = "ks" /\ Goto(w, "create") /\ UNCHANGED <<waiting, skipped>>
    /\ UNCHANGED <<clusterVars, lister, store, events, dirty, ptrs, hubVars,
                   managed, doubtful, overlapped, missed>>

(* Create fails when the WorkStatus exists by now.                         *)
createWorkStatus(w) ==
    LET s == [exists |-> TRUE, status |-> 0, label |-> worker[w].obj.label] IN
    /\ worker[w].pc = "create"
    /\ \/ ws[Of(w)].exists /\ Retry(w) /\ UNCHANGED <<ws, failures>>
       \/ /\ ~ws[Of(w)].exists
          /\ Write(w, s, [worker[w] EXCEPT !.pc = "patch", !.label = s.label,
                                           !.fresh = TRUE])
    /\ UNCHANGED <<clusterVars, lister, store, events, dirty, ptrs, mw, historyVars>>

(* GetObjectStatusAsBytes, once the label is right: an error without a     *)
(* status field.                                                           *)
statusField(w) ==
    IF worker[w].obj.ver = 0
    THEN Retry(w)
    ELSE Goto(w, "status") /\ UNCHANGED waiting

(* The label patch has no resourceVersion; its answer brings a new copy.   *)
patchWorkStatus(w) ==
    /\ worker[w].pc = "patch"
    /\ \/ ~NeedsPatch(w) /\ statusField(w) /\ UNCHANGED <<ws, failures>>
       \/ NeedsPatch(w) /\ ~ws[Of(w)].exists /\ Retry(w) /\ UNCHANGED <<ws, failures>>
       \/ /\ NeedsPatch(w) /\ ws[Of(w)].exists
          /\ Write(w, [ws[Of(w)] EXCEPT !.label = worker[w].obj.label],
                   [worker[w] EXCEPT !.label = worker[w].obj.label, !.fresh = TRUE])
    /\ UNCHANGED <<clusterVars, lister, store, events, dirty, ptrs, mw, historyVars>>

(* The update is refused unless the local copy has the resourceVersion of  *)
(* the hub's.                                                              *)
updateAccepted(w) == ws[Of(w)].exists /\ worker[w].fresh

updateStatus(w) ==
    /\ worker[w].pc = "status"
    /\ \/ ~updateAccepted(w) /\ Retry(w) /\ UNCHANGED <<ws, failures>>
       \/ /\ updateAccepted(w)
          /\ Write(w, [ws[Of(w)] EXCEPT !.status = worker[w].obj.ver], IdleWorker)
    /\ UNCHANGED <<clusterVars, lister, store, events, dirty, ptrs, mw, historyVars>>
-----------------------------------------------------------------------------
(* The agent's process ends, because it is evicted or because a handler    *)
(* panics, and is started again: Start and run begin with empty maps, an   *)
(* empty queue and idle workers.                                           *)
Restart ==
    /\ Crashes /\ HubFails
    /\ lister' = FALSE /\ store' = {}
    /\ events' = [o \in Objects |-> 0]
    /\ dirty' = {} /\ waiting' = {} /\ ptrs' = 0
    /\ worker' = [w \in Workers |-> IdleWorker]
    /\ overlapped' = {} /\ skipped' = {}
    /\ missed' = missed \cup {o \in Objects : ~object[o].exists}
    /\ UNCHANGED <<clusterVars, mw, ws, managed, doubtful>>

(* The AppliedManifestWork is made anew.  BuildWorkstatusName takes its    *)
(* UID, so there is no WorkStatus with one of the new names.  A worker     *)
(* that has looked it up before goes on with a name that is no longer      *)
(* used, and retries its key or does not; the new owner is written to      *)
(* every object.                                                           *)
NewAppliedManifestWork ==
    LET Late == {w \in Workers : worker[w].pc \notin {"idle", "aw"}} IN
    /\ ws' = [o \in Objects |-> NoWS]
    /\ \E R \in SUBSET Late : waiting' = waiting \cup {worker[w].key : w \in R}
    /\ worker' = [w \in Workers |-> IF w \in Late THEN IdleWorker ELSE worker[w]]
    /\ events' = [o \in Objects |-> IF o \in store THEN events[o] + 1 ELSE events[o]]
    /\ UNCHANGED <<object, owners, changes, lister, store, dirty, ptrs, mw, failures,
                   historyVars>>

Init ==
    /\ object = [o \in Objects |-> Gone]
    /\ owners = [o \in Objects |-> {}]
    /\ aw = TRUE /\ mw \in {"ks", "plain"}
    /\ changes = 0
    /\ lister = FALSE /\ store = {}
    /\ events = [o \in Objects |-> 0]
    /\ dirty = {} /\ waiting = {} /\ ptrs = 0
    /\ ws = [o \in Objects |-> NoWS]
    /\ failures = 0
    /\ worker = [w \in Workers |-> IdleWorker]
    /\ managed = (mw = "ks") /\ doubtful = {}
    /\ overlapped = {} /\ skipped = {} /\ missed = {}

Environment ==
    \/ \E o \in Objects :
          \/ \E v \in {0, changes + 1}, l \in Labels, own \in Owners :
                SetObject(o, v, l, own)
          \/ DeleteObject(o)
          \/ GarbageCollect(o)
    \/ DeleteManifestWork
    \/ RemoveAppliedManifestWork
    \/ RelabelManifestWork
    \/ InformerStops /\ MayChange /\ stopInformer /\ changes' = changes + 1
    \/ Restart

WorkerStep(w) ==
    \/ \E k \in dirty : reconcile(w, k)
    \/ GetAppliedManifestWork(w)
    \/ deleteGetWorkStatus(w)
    \/ deleteWorkStatus(w)
    \/ getWorkStatus(w)
    \/ GetManifestWork(w)
    \/ createWorkStatus(w)
    \/ patchWorkStatus(w)
    \/ updateStatus(w)

Next ==
    \/ Environment
    \/ startInformer
    \/ \E o \in Objects : informerAdds(o) \/ enqueueObject(o)
    \/ \E k \in waiting : AddRateLimitedFires(k)
    \/ \E w \in Workers : WorkerStep(w) \/ hubRequestFails(w)

Spec == Init /\ [][Next]_vars

(* As in InformerRegistry; that an informer runs for a kind with objects   *)
(* is what InformerRegistry is about.  An object has at most one pointer   *)
(* for each of its notifications.                                          *)
Fairness ==
    /\ WF_vars(startInformer)
    /\ \A o \in Objects : WF_vars(informerAdds(o)) /\ WF_vars(enqueueObject(o))
    /\ \A k \in Objects \X (0 .. 2 * MaxChanges + 1) :
          /\ WF_vars(AddRateLimitedFires(k))
          /\ SF_vars(\E w \in Workers : reconcile(w, k))
    /\ \A w \in Workers : WF_vars(WorkerStep(w))

FairSpec == Spec /\ Fairness
-----------------------------------------------------------------------------
(* Properties.                                                             *)

Reported(o) == /\ ws[o].exists
               /\ object[o].ver # 0 => ws[o].status = object[o].ver
               /\ ~Differs(ws[o].label, object[o])

(* The hub's view, as StatusMirror describes it.                           *)
Mirror == INSTANCE StatusMirror WITH
    current <- [o \in Objects |-> object[o].ver],
    work    <- mw,
    shown   <- [o \in Objects |-> IF ws[o].exists THEN {ws[o].status} ELSE {}]

(* The workers, with their retries, crashes and lost answers, the informer *)
(* that comes and goes, and the hub's garbage collection implement         *)
(* StatusMirror.                                                           *)
MirrorsStatus == Mirror!Spec

(* No order of events, retries, crashes or unanswered requests makes a     *)
(* reported status go back to an older one, or disappear, while the        *)
(* ManifestWork exists, unless the object was deleted or had a             *)
(* notification pending when its informer was stopped.                     *)
StatusNeverRegresses == [][\A o \in Objects \ doubtful' :
    ws[o].exists /\ mw # "absent" =>
        ws'[o].exists /\ ws'[o].status >= ws[o].status]_vars

(* The work queue keeps workers apart: two of them are at one object at a  *)
(* time only if its keys may differ in their DeletedObject, because it was *)
(* deleted or the informer stopped before a notification was handled.      *)
OneWorkerPerObject == overlapped \subseteq doubtful

(* No status is lost: when the agent has nothing left to do, the hub has   *)
(* the latest status and label of every object its informer sees, deleted  *)
(* and created again or not, unless two workers have been at it at one     *)
(* time, or it was last looked at when the ManifestWork had no KubeStellar *)
(* label (a later label brings no event, pkg/agent/reconcilers.go:193).    *)
LiveObjectsReported ==
    Settled /\ aw /\ mw # "absent" /\ lister =>
        \A o \in Objects \ (overlapped \cup skipped) :
            object[o].exists /\ object[o].owned => Reported(o)

(* No WorkStatus is left behind without a reason: when the agent has       *)
(* nothing left to do, an object that is gone has one only if two workers  *)
(* have been at it at one time, or its deletion came while no informer     *)
(* looked, was not its owner's, or failed on the hub.                      *)
LeftBehindExplained ==
    Settled /\ aw => \A o \in Objects \ (overlapped \cup missed) :
        ws[o].exists => object[o].exists

(* A delete event ensures "that the workstatus is removed"                 *)
(* (pkg/agent/reconcilers.go:38): when the agent has nothing left to do,   *)
(* no object that is gone has a WorkStatus.                                *)
DeletedObjectsCleared ==
    Settled /\ aw /\ mw = "ks" =>
        \A o \in Objects : ws[o].exists => object[o].exists

(* Under fair scheduling each status of an object is reported sooner or    *)
(* later, unless the object or its label changes first, the ManifestWork   *)
(* goes or has no KubeStellar label, or two workers get at the object.     *)
StatusEventuallyReported ==
    \A o \in Objects : \A v \in 1 .. MaxChanges :
        (object[o].ver = v /\ object[o].owned) ~>
            \/ ws[o].status = v \/ object[o].ver # v
            \/ mw = "absent" \/ o \in skipped \cup overlapped
=============================================================================
