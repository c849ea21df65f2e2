# Formal model of the OCM status add-on

TLA+ modules that model `kubestellar/ocm-status-addon`: the status agent, and how the
add-on comes up; TLC configurations that check them on small instances, and TLAPS
proofs for all instances. File names below are relative to the repository; `PROJECT.json` maps
every definition to its lines of code.

## 1. The system

The add-on has two processes. On the hub, the *add-on controller*
(`pkg/controller`, `cmd`) registers the add-on with OCM and installs the agent on
managed clusters. On each managed cluster, the *status agent* (`pkg/agent`)
watches the objects that OCM's work agent applied there and mirrors their status
into `WorkStatus` objects on the hub. Most of the state is in the agent.

| part | state | operations | interacts with |
|---|---|---|---|
| informer registry (`informers.go`, `handleAppliedManifestWork`) | maps `trackedAppliedManifests`, `objectsCount`, `informers`, `listers`, `stoppers`; the field `restMapper` | `startInformers` (a goroutine per change), `stopInformers` (in the worker), `startInformer`, `stopInformer` | the work queue, discovery, `util.SafeMap`, `util.SafeUIDMap` |
| WorkStatus synchronisation (`handleWorkStatus`) | none of its own: the hub's WorkStatuses, the listers | get, create, label patch, status update, delete | the hub API, the registry's listers, `pkg/ocm` |
| queue and workers (`agent.go`) | the rate-limiting work queue | `handleObject`, `enqueueObject`, `processNextWorkItem`, `reconcile` | informers call the handlers; four workers call `reconcile` |
| safe maps (`safemaps.go`) | a Go map under a mutex | `Set`, `Get`, `Delete`, `AddUID`, `DeleteUID`, `GetUIDCount` | shared by all goroutines |
| difference of lists (`utils.go`) | pure | `GetAddedRemovedInfo` | `handleAppliedManifestWork` |
| names and keys (`utils.go`, `keys.go`) | pure | `BuildWorkstatusName`, key strings | everything |
| OCM helpers (`pkg/ocm`) | pure and hub reads | look up the AppliedManifestWork, the ManifestWork | `reconcile`, `handleWorkStatus` |
| start-up of the agent (`agent/manager.go`, `Start`, `run`) | the process, its first informer | `RunAgent`, `NewAgent`, `Start`, `run` | the kubelet, discovery |
| permissions and health (`pkg/rbac`, `controller/manager.go`) | the hub's Role and RoleBinding | `AddonRBAC`, `HealthCheck` | OCM's add-on framework, the work agent's feedback |
| flags, clients, metrics, generated API code | configuration | | |

What is hard about it, and what the properties are about:

* **Two map operations are not one.** Each map is thread-safe, but
  `AddUID` + `GetUIDCount`, `DeleteUID` + `GetUIDCount` and the three `Set`s or
  `Delete`s of an informer are separate lock regions, used by workers and by
  goroutines at the same time.
* **Unordered goroutines.** `go a.startInformers(added)` may run before, during
  or after `stopInformers(removed)` of the same or of a later change.
* **Keys with pointers.** A delete event makes a key that no other key equals, so
  the queue's promise of one worker per key does not cover a deletion and a
  re-creation of one object.
* **Several requests to the hub per reconcile**, each of which may fail or be
  carried out with its answer lost, and between which other workers, the
  cluster and the garbage collector act.
* **Lookups at the time of use.** The handler and `reconcile` read the lister as it
  is when they run, which may be empty, gone, or ahead of the event.
* **Shared `restMapper`**, written without a lock and set to nil on errors.
* **Requeue for ever** of works without applied resources and of objects without
  a status.
* **Crashes.** Discovery errors, missing stop channels and tombstones end the
  process; everything but the hub and the cluster is forgotten.
* **Names made of parts.** WorkStatus names join parts by `-` and are cut.
* **Start-up by timer.** `Start` goes on after three seconds, whatever has
  happened; Role and RoleBinding are two requests, by possibly two controllers.

What makes each part correct: every listed object is referenced and watched by
one informer of its kind; no change of a work is lost; stopping an informer never
hurts another; the hub has the latest status of every live object, never an older
one than before, and none for objects that are gone or never were managed; the difference of
two lists is a set difference; a granted permission is there, and workers start
only when the works are listed.

## 2. Modules

| module | models | source |
|---|---|---|
| `SafeMaps` | the safe maps as functions, one operator per locked operation | `pkg/util/safemaps.go` |
| `InformerRegistry` | which informers run | `pkg/agent/informers.go`, `reconcilers.go:30-131`, `agent.go` |
| `RegistryProofs` | its inductive invariant and theorems | |
| `SingletonProofs` | that one informer runs per kind, and is kept while it is needed, for orderly schedules | |
| `WorkStatusSync` | how statuses reach the hub | `reconcilers.go:30-72,133-259`, `agent.go`, `pkg/ocm/ocm.go`, `unstructured.go` |
| `SyncProofs` | its inductive invariant and theorems | |
| `StatusMirror` | abstract: what the hub may show | implemented by `WorkStatusSync` |
| `ReportingProofs` | that no status is lost, and none is left behind, without a reason | |
| `StatusAgent` | `InformerRegistry` and `WorkStatusSync` together | `pkg/agent` |
| `AgentProofs` | that the whole agent loses no status | |
| `AddonLifecycle` | permissions, start-up, health | `pkg/rbac`, `agent/manager.go`, `agent.go:72-175`, `controller/manager.go` |
| `AddonProofs` | its inductive invariant and theorems | |
| `AddedRemovedInfo` | `GetAddedRemovedInfo`, loop by loop | `pkg/util/utils.go:13-49` |
| `DiffProofs` | that it computes set differences | |
| `WorkStatusNames` | `BuildWorkstatusName` and the keys | `pkg/util/utils.go:51-78`, `keys.go` |
| `NamesProofs` | which objects share names and keys | |
| `MCRegistry`, `MCSync`, `MCAgent`, `MCAddon`, `MCUtil` | instances for TLC | |

### InformerRegistry

Workers and `startInformers` goroutines are records with a program counter; one
action is one operation on a shared map, one discovery request, or one assignment
to `restMapper`. The maps are the variables `tracked`, `count`, `informers`,
`listers`, `stoppers`; an informer is a number, `running` holds the numbers whose
stop channel is open. `present` and `applied` are the AppliedManifestWorks as the
informer's cache has them, `events` counts the notifications not handled yet,
`dirty`, `waiting` and the derived `processing` are the work queue. A panic sets
`fault` and stops everything until `Restart`, which starts from empty maps and
delivers the existing works as events; `Crash` is a panic in the code of the other
modules, or an eviction. `deleted`, `abandoned` (objects
`startInformers` skipped because the restMapper did not know a kind) and `leaked`
(the same for `stopInformers`) are history variables: no action reads them.

The actions follow the code in order: `enqueueObject` (handler), `reconcile` (up to
the first map access), `trackedGet`, `trackedSet` (Set, then the `go` statement),
`stopInformers` (one iteration up to `informers.Get`), `stopDeleteUID`,
`stopGetUIDCount`, `stopInformer` (get and close the channel), `informersDelete`,
`listersDelete`, `stoppersDelete`, `stopGetRestMapper`, `stopSetRestMapper`,
`trackedGetGone`, `trackedDelete`; and for the goroutine `startGetRestMapper`,
`startSetRestMapper`, `startInformers` (one iteration up to `AddUID`),
`startGetUIDCount`, `informersSet`, `listersSet`, `stoppersSet`, `startReturns`.

Abstractions. An object is its UID, with one GVK that also stands for its GVR and
its key string. The order of the entries of a list is dropped: `DeepEqual` of equal
sets may be true or false, and iteration picks any remaining object, which covers
both the order of the list and Go's map order. Lists are sets, so the duplicates
that `AddedRemovedInfo` handles do not occur here. The queue is a set: any key may be
taken next, fairness takes the place of first-in-first-out. The race on
`restMapper` is a nondeterministic order of whole assignments; a torn read of the
interface value is not modelled. `Starters` bounds the goroutines alive at one time:
with all slots taken a worker waits before its `go` statement, which removes
behaviours of the model and adds none.

`Pace` says how fast works change, so that runs can tell apart what holds always and
what needs quiet between changes: `free` at any time, `stepwise` when the agent is
idle, and by a list that only adds to, or only takes from, what is *tracked* for the
work. The tracked list, not the one before, is what the code compares with: an empty
list is requeued without being compared, so after {u1}, {} the list {u2} replaces u1.

### WorkStatusSync

The objects of one kind that one AppliedManifestWork delivers. `object` holds the
existence, the status version (0: no status field), the value of the singleton label
(0: none) and whether an AppliedManifestWork owns the object; every update may change
them all. `ws` has the WorkStatus of each; `mw` and `aw` the ManifestWork on the hub,
which may gain and lose its KubeStellar label at any time (`RelabelManifestWork`: no
informer of the agent sees that), and the AppliedManifestWork in the cache. A worker's record has the copy of the object the
lister returned at the start of `reconcile`, and of its WorkStatus copy the label and
whether the resourceVersion is still the hub's (`fresh`). One action is one request
to the hub: `deleteGetWorkStatus`, `deleteWorkStatus`, `getWorkStatus`, `GetManifestWork`,
`createWorkStatus`, `patchWorkStatus`, `updateStatus`. `Write` gives every write
two outcomes, answered, or carried out with the answer lost; `hubRequestFails` is a
request that is not carried out. An error puts the key back (`Retry`); the Delete
request is the exception, as in the code.

The informer of the kind has a lister entry and a store that is filled object by
object (`startInformer` publishes the lister first). It may be stopped at any time,
whatever objects live: the registry stops it when no work *lists* an object of the
kind. Notifications that were not handled by then are handled later, when there is no
lister or the next one's; client-go may in fact drop some of them, which is the same as
a change that was never seen. In `StatusAgent` the registry decides when it stops.

Five history variables record why a promise may fail for an object; no action reads
them. `doubtful`: it was deleted, or had a notification pending when its informer was
stopped, so that some key of it may stand for a deletion. `overlapped`: two workers
were at it at one time. `skipped`: it was last looked at when the ManifestWork had no
KubeStellar label. `missed`: its deletion came while no informer looked, was dropped
with its lister, was not its owner's, or failed on the hub. `managed`: the ManifestWork
has had a label. The properties except objects by these reasons and by nothing else, so
that each shows that there is no further reason; the violation runs show that the
reasons are real.

`Restart` is a crash at any point: queue, workers, listers and stores are lost; the
informer that starts again lists what exists, so an object deleted meanwhile makes
no event. The panic of a delete handler that is given a tombstone is one of these
crashes. `NewAppliedManifestWork`, which only `StatusAgent` uses, is a work that is made
anew: its UID is part of every WorkStatus name, so that no WorkStatus has the new names.

Abstractions. The cluster and the informer's store agree except while the store is
filled (a delayed watch is the same as a later change). Names, owner references,
labels of the WorkStatus other than the singleton label, source references and status
contents are model values or dropped. The WorkStatus's name is the object: when that is
right is what `WorkStatusNames` is about. `GetGVR` needs the registry's restMapper and is
in `StatusAgent`.

### AddedRemovedInfo

The function as a small state machine: the early returns, the two maps, the two
`range` loops, which visit keys in any order. `DifferencesOfUIDs` is the reference
definition that `InformerRegistry`'s `Added` and `Removed` use.

### StatusMirror

Five variables (the objects' versions, which are doubtful, the work, whether it was
ever KubeStellar's, what the hub shows) and the steps a user may see: objects change,
the work is relabelled or ends, a WorkStatus is created without a status if the work
was KubeStellar's, updated to a version between the one it shows and the object's,
withdrawn for a doubtful object or a work that ended. The refinement mapping is
`Mirror` in `WorkStatusSync`; queue, workers, caches and failures are hidden by it.

### StatusAgent

One AppliedManifestWork and its objects of one kind. It extends `InformerRegistry`
and instantiates `WorkStatusSync` with the registry's `listers` as its `lister` and
the registry's cache as its `aw`: the step that sets or deletes the lister is at the
same time `WorkStatusSync`'s `startInformer` or `stopInformer`. An informer fills its
store, and sees changes, only while its number is in `running`. A worker does one
thing at a time: a key of the work or a key of an object. Create needs the restMapper
the registry keeps: without the kind in it the key is retried (`GetGVRFails`), with none
at all the process panics, which is one of the crashes of `AgentCrash`, as is the panic
of a handler that is given a tombstone. A panic of either part restarts both. A work
that is deleted and applied again has another UID, so that all its objects need new
WorkStatuses; a worker that still holds the old name writes what nobody reads any more.
CRDs come and go, but a CRD goes only after its objects. Left out: what changes between `close(stopper)` and
`listers.Delete`, which the stopped informer would not see; objects that come back
under the same UID; how the ManifestWork ends or is relabelled and how owners change,
which `WorkStatusSync` has; and lists that add and remove at once (see section 3).

### AddonLifecycle

The hub's half: every controller process (two overlap while a new one is rolled out)
calls `AddonRBAC`, one action per request, with errors, lost answers, restarts in the
middle and somebody removing what was made. The managed cluster's half: the
container starts, `RunAgent` sets up or exits, `Start` launches `run` and leaves its
`select` by the timer, `run` registers the first informer, waits for the informers in
the map and starts workers. `FeedBack` and `Probe` are the way from the Deployment's
status through the work agent to `HealthCheck`. Abstractions: the rules in the Role,
templates and CSR configuration have no state; `exit` stands for all `os.Exit(1)`.

### WorkStatusNames

The one module in which text is a sequence of characters, because its properties are
about the conversions: joining, removing `/`, lower case, cutting. `RemoveAll` is a
recursive function rather than `SelectSeq`, of which the prover knows nothing.

## 3. Runs

Passing runs:

| run | question | instance | states |
|---|---|---|---|
| `registry_free` | Are references, stop channels and changes safe under every interleaving, with CRDs that come and go, failing discovery, panics and a restart? | 1 work, 3 objects (1 of an excluded kind), 2 workers, 2 goroutines, 2 changes of lists or CRDs, 1 restart | 254 000 |
| `registry_stepwise` | Exactly one informer per kind, no leaked reference, no panic in `stopInformer`, no informer stopped that a work still needs, and every listed object watched sooner or later, when changes are well spaced? | 2 works, 2 objects, CRDs that come and go, 4 changes, fairness | 15 800 |
| `sync_deletions` | Does the synchronisation implement `StatusMirror`? Is a status lost or left behind, does one go backwards, are two workers at one object, without one of the reasons the history variables record? | 1 object, 2 workers, 2 label values, owned or not, 3 changes, 1 failure or crash; deletions, informer stops, relabelling, the work's end, failing Deletes | 1 860 000 |
| `sync_fair` | Does every status arrive, also after crashes and informer stops? | 1 object, 2 workers, 2 changes, 2 failures or crashes, fairness | 82 500 |
| `agent` | Does the whole agent report what works list? | 1 work, 2 objects, 2 workers, 1 goroutine, 2 object and 3 list or CRD changes, 1 restart, 1 failure | 5 560 000 |
| `addon` | Are permissions granted, do workers start after the first list, does the add-on become healthy? | 2 controllers, 3 faults, fairness | 82 000 |
| `util` | Is the difference of lists right in every iteration order; do keys tell objects apart? | lists of up to 3 entries over 3 UIDs and 2 GVRs; all pairs of 192 objects, names cut at 11 | 121 000 |

Violation runs, each a disagreement between the code and a comment, a log
message or a test description (quoted in `PROJECT.json`, `findings`):

| run | what the counterexample shows |
|---|---|
| `registry_uncounted` | two goroutines add their UIDs before either reads the count: nobody starts the informer |
| `registry_stop_panic` | a stop between `informers.Set` and `stoppers.Set` of a start ends the process |
| `sync_delete_error` | a failed Delete is taken for "previously deleted" |
| `agent_stale_event` | a notification that outlives its informer is taken for a deletion, and its Delete removes the WorkStatus of an object that lives and is listed |
| `util_names` | namespace `a`, name `a-a` and namespace `a-a`, name `a` get one WorkStatus name |

`sync_delete_error` has one worker, so that the failing Delete is the only cause.
`agent_stale_event` needs two workers, one object, no failure and no restart: the work is
deleted while its object lives and a notification of it waits; the informer is
stopped, the work is applied again and the next informer's lister is published
(`informers.go:96`) before its store is filled. The old notification finds no object, so
that it is queued as a deletion; the new informer's notification is queued as an
update, and the Delete of one worker lands after the Create of the other. Deleting and
re-creating the object leads to the same race, as the reason `doubtful` says.

Behaviours the models also have, without a run of their own:

* `SingletonInformer` fails in further ways: a UID that two works list is counted
  once and started twice (give `MayList` a common object), and a work that replaces
  its only object may end with two informers of the kind, because the goroutine
  that adds and the worker that removes interleave. `registry_stepwise` excludes the
  first by its `MayList`, the second by its `Pace`.
* The same interleaving can leave a kind without a lister: `stopInformer` of the
  worker deletes the entry the goroutine has just set. It needs no replacement in one
  change: an empty list is requeued without being compared
  (`reconcilers.go:88`), so {u1}, {}, {u2} is handled as {u1} to {u2}. The stepwise
  `Pace`, which `StatusAgent` uses too, leaves it out.
* A WorkStatus outlives the KubeStellar label of its ManifestWork, and a label that comes
  later brings no event: the object is reported when it changes next
  (`reconcilers.go:182`, TODO at 193; the reason `skipped`).
* A failed discovery leaves a nil restMapper that the next line uses; the process ends
  (`fault = "nilMapper"` in `registry_free` and `agent`).
* After a restart all works are started at the same time, so that the race of
  `registry_uncounted` needs no user at all; `registry_stepwise` has no restart, and the
  theorems of `SingletonProofs` allow one only where there is a single work.
* A work that is deleted and created again with a new object while its first list is
  processed may end forgotten; the proved properties except works that were deleted.
* `DeletedObjectsCleared` also fails when Create follows the Delete of another worker
  (`overlapped`), and when the informer is stopped before the delete event is handled or
  the object is deleted while the agent is down (`missed`): `LeftBehindExplained` says that
  these are all the ways.
* `GetAddedRemovedInfo` compares UIDs alone: same UID and new GVR is neither added nor
  removed.
* `Start`'s timer starts the manager before the works may be listed, and without a
  readiness probe `HealthCheck` is satisfied before workers run;
  `AgentWorksHealthy` says that both hold in the end.
* A Role that exists is never updated.

**Bounds.** Two workers and two goroutines are the fewest that race on a map pair; the
agent has four workers, but each race found or excluded is between two holders of one
key, one count or one map entry, and the proved properties hold for any number. In
`registry_free` two changes, of the work's list or of a CRD, make a work appear and be
replaced, emptied or deleted; removing an object and listing it again is left to
`registry_stepwise`, with four changes, and to the theorems. In `sync_deletions` three
changes allow create, delete and re-create, or a new label value on a status already
reported, or an informer stop between two changes. Two objects of one kind are the
fewest for which a count differs from 0 and 1. In `agent` three changes of the work
are what deleting it and applying it again takes, and two of an object what makes a
notification wait; a second goroutine adds nothing under the stepwise `Pace`, where at
most one has objects to add. One failure lets every request of a reconcile fail or
lose its answer once; two let the retry fail as well. `sync_fair`, which has two
changes, does not meet a re-creation; `sync_deletions` does. Symmetry is used for
goroutines, and for objects or names where the instance does not tell them apart; not
with fairness.

**Deadlock** is not checked: when the bound on changes is used up and the agent has
nothing to do, it stops, as the idle agent does.

**Fairness.** Goroutines are scheduled, timers of the rate limiter fire and informers
deliver: weak fairness of each goroutine, of handlers and of delays. Taking a key
from the queue is strongly fair per key: a key that is put back again and again by
others' work must be taken at some time, which the queue's first-in-first-out order
gives. In `AddonLifecycle`: the framework retries a failed call and calls again for a
new process; the kubelet restarts the container; the work agent and the probe run
periodically; the CRD is installed at some time. Nothing is assumed of the other
changes of the cluster or of failures, which are bounded.

**Mutants.** Every property of a passing run is paired with a mutant of the code
(`\* Mutant:` in the modules): an off-by-one count, a forgotten requeue, a missing
label check, a key marked done too early. TLC finds the property violated when the
mutant replaces the original.

## 4. Proofs

TLAPS proves, for all values of the constants that satisfy the named assumptions
(the constants have their types; `None` is no object and no key; bounds are natural
numbers):

| module | theorem | property |
|---|---|---|
| `RegistryProofs` | `TypeCorrect` | `TypeOK` |
| | `CountedSafe` | `ListedObjectsCounted` |
| | `ClosedStopperSafe` | `ClosedStopperIsBeingRemoved` |
| | `NoChangeLost` | `ListedWorksTracked` |
| `SingletonProofs` | `OneInformerPerKind` | `SingletonInformer`, if `Orderly` |
| | `TrackedAreCounted` | `OnlyTrackedCounted`, if `Orderly` |
| | `StopsSafely` | `StopNeverPanics`, if `Orderly` |
| | `KeepsNeededInformers` | `NeededInformerKept`, if `Orderly` (action property) |
| `SyncProofs` | `TypeCorrect` | `TypeOK` |
| | `WorkersKeptApart` | `OneWorkerPerObject` |
| | `NeverRegresses` | `StatusNeverRegresses` (action property) |
| | `ImplementsMirror` | `MirrorsStatus` (refinement) |
| `ReportingProofs` | `NothingLost` | `LiveObjectsReported` |
| | `NothingLeftBehind` | `LeftBehindExplained` |
| `AgentProofs` | `AgentIsRegistry` | `AgentSpec => Spec` (refinement of `InformerRegistry`) |
| | `ListedReported` | `ListedObjectsReported`, stepwise |
| `AddonProofs` | `TypeCorrect` | `TypeOK` |
| | `Permitted` | `GrantedMeansPermitted` |
| | `StartedSynced` | `WorkersStartSynced` |
| `DiffProofs` | `Differences` | `DifferencesOfUIDs` |
| | `SameIndex` | `IndexesAgree` |
| `NamesProofs` | `KeysApart` | `KeysTellApart` |
| | `SharedNames` | `SharedNamesExplained`, what is left of `NamesUnique` |

All of them are for any number of workers. The runs that check the same properties
satisfy the hypotheses of the conditional theorems (`registry_stepwise`, `agent`);
`registry_uncounted` and `registry_stop_panic` show that `Orderly` cannot be dropped, and
`agent_stale_event` that the exception of `ListedObjectsReported` cannot. That `Pace` must be
stepwise for it is the case of section 3 in which a kind is left without a lister.

**The registry's invariant.** `ListedObjectsCounted` is not inductive: what protects a
reference is that no *other* goroutine removes it. `Inv` adds: busy workers hold
distinct keys and objects their work may list (`WorkersOK`); keys with a pointer,
workers that forget a work, and events of absent works occur only for works that were
deleted (`QueueOK`), so a work that was not deleted has at most one worker
(`OneWorkerPerWork`); that worker's old list is the tracked one, and what it is
about to stop is disjoint from what is tracked (`TrackedOK`); what is tracked is
counted or on its way (`CountedOK`); and a work with a list is settled or has a
pending event or key (`PendingOK`). Steps of `startInformers` and `stopInformers` are
reduced to an effect (`StartEffect`, `StopEffect`) before the invariant is shown.
`Sole` is needed: an object listed by two works is counted once and can lose its
reference when one of them drops it.

**One informer per kind.** `Orderly` says that works change stepwise, that no object is
listed by two works, and that the process restarts only if there is one work (after a
restart all works differ from what is tracked, and their goroutines race). Workers,
goroutines, CRDs and discovery are as free as before, and the maps are still edited one
operation at a time. `SingletonInformer` speaks of a quiet agent, so the work is to say
what holds while it is busy. `SInv` does so in three layers over `Inv`. *Control*: the
deletion of a work is under way once (`DeletesOK`), a worker that decides has the
present list and the tracked one (`DecidingOK`), at most one work differs from what is
tracked for it, and the agent will look at that one (`DifferentOK`); hence at most one
goroutine, a worker or a `startInformers`, has objects to add or remove
(`ExclusiveOK`). *References*: what is counted is tracked, leaked, or in the hands of
the worker that will release it, and what is tracked is counted or due (`RefsOK`).
*Maps*: a kind is up, with all three maps naming the one running informer, or down, or
it is the kind the one active goroutine is at, and then the program counter says which
entries are set (`KindsOK`). Each layer is preserved with the help of the ones above
it; the steps of `startInformers` and `stopInformers` are again reduced to effects
(`AddEffect`, `ReleaseEffect`) before they are used. Where the restMapper did not know
a kind (`Mapped` is false), the layers say only what is left: the stop channel
that the map names is open, which is why `StopsSafely` needs no exception.
`KeepsNeededInformers` is about the moment the lister goes: the worker that deletes it
is the one active goroutine, so no work differs from what is tracked for it, the kind's
count is empty, and a listed object of the kind would be counted (`StoppedUnneeded`);
`ListOK`, that an absent work lists nothing, is all it adds.

**The synchronisation's invariant.** The status on the hub is at most the version in
the copy of any worker on that object, which is at most the object's version
(`StatusOK`); this is preserved because an object that is not doubtful has a single
key (`UndoubtedOK`) and hence a single worker (`WorkersOK`). Such an object's
notifications find it in the store: a stop of the informer empties the store, and makes
exactly those doubtful whose notifications are pending. `OverlapOK` says that two
workers at one object are recorded, and only for doubtful ones (`OneWorkerPerObject`).
`ManagedOK` is the half of the label check that survives relabelling: a worker on its
way to Create has seen a label. `Effect` is what a
step of a busy worker does to its WorkStatus. The same facts prove the refinement:
an effect is a `Create`, an `Update` with a version in range, a `Withdraw`, or a
stutter of `StatusMirror`.

**No status is lost.** `LiveObjectsReported` speaks of an idle agent only. The
invariant behind it, `OnItsWay`, speaks of every state: what an object in the store
shows is reported, or queued (notification, key, delay), or in a worker's hands; and a
worker with an old copy is followed by another key. `CopiesOK` is needed with it:
what the worker believes of the WorkStatus when it skips the label patch is true,
since no other worker writes it; this is where objects two workers were at have to be
excepted. A crash or a stop empties the store, which makes `OnItsWay` true until the
informer has listed again. Objects that were deleted and created again are covered like all
others. For deletions, `ClearOK` says that an
object that is gone, with its WorkStatus still there or a worker still writing it, has
its delete event pending, unless it is `missed`: as a notification, as a key with a
pointer, or in the worker's hands.

**The whole agent.** `AgentInv` is the two halves' invariants side by side: `SInv` for
the registry, `Inv`, `CopiesOK` and `OnItsWay` for reporting, through an instance of
`ReportingProofs` with the registry's lister and cache. Every step of `StatusAgent` is
a step of the registry or leaves it alone (`RegistrySteps`, hence `AgentIsRegistry`), and
to reporting a step of `WorkStatusSync`, or one that `ReportingProofs` has for it
(`Foreign`): a start or a stop of the informer, a retry for want of the kind's resource, a
work that is made anew, or a change of the AppliedManifestWork alone (`ReportingSteps`). A quiet agent has, by `SInv`, a lister
and a running informer for the kind its work lists; a settled one whose store is full has, by
`OnItsWay`, reported every object in it; the two meet in `QuietReported`.
To reporting every object is doubtful here, since its informer may be stopped at any
time; so nothing keeps two workers apart, and the theorem excepts the objects that two
workers have been at since the last start (`objOverlapped`), as it must. The instance is of one work, one kind
with a status, and a work that may list any object (`AgentAssumption`), which is what
`StatusAgent` models; the numbers of objects, goroutines, changes and failures are
arbitrary.

**The add-on's invariant.** A call past the Role has seen or made it, unless somebody
removed it since the call began (`CallsOK`); the informer is in the map before `run`
waits for those in the map (`StartOK`). `TypeOK` is proved from it in
three parts: flags, program counters, and the feedback list.

**The difference of lists.** Loop invariants over the keys still to visit; the maps
are built from the last entry with a UID, whose index is a maximum. That a nonempty
bounded set of numbers has one is `MaxIsIndex`, by well-founded minimality.

**Names and keys.** A text without a separator, joined to others by one, is found
again (`SplitAtFirst`), two parts are not taken for three (`TwoAreNotThree`), and a
full name starts with the UID of its work, which is never cut (`NameStartsWithUID`).
`RemoveAllIsText` shows that the recursive function has a value, and that it is a text,
by taking the least index at which either would fail: induction without an induction
theorem.

Only model-checked: the liveness properties `ListedObjectsWatched`,
`StatusEventuallyReported`, `PermissionsGranted` and `AgentWorksHealthy`: fairness is out
of this prover's reach. Every invariant and every other action property of a passing run is
stated by a theorem.

## 5. Not modelled

* Flags, client construction, rate limits, leader election, metrics and profiling
  servers, `main.go`: configuration and I/O. Two agents that overlap are not modelled:
  leader election would exclude them, but is off by default.
* The manifests' templates, CSR signing and registration: handed to OCM's framework
  as values. `AddonRBAC` and `HealthCheck`, the two callbacks with logic, are modelled.
* Generated code (deep copies, clients) and the schema of `WorkStatus` beyond what
  `WorkStatusSync` tells apart.
* Conversions in `unstructured.go` without control flow, and text for the log
  (`GenerateObjectInfoString`).
* When a watch makes a tombstone; the panic that follows is a crash.

## 6. What could follow

* Two kinds or two works in `StatusAgent`; changes that add and remove at once hold no
  reporting promise with the present code.
