--------------------------- MODULE AddonLifecycle ---------------------------
(***************************************************************************)
(* How the add-on comes up for one managed cluster.  On the hub the add-on *)
(* framework calls AddonRBAC, which gives the agent its permissions, from  *)
(* every process of the add-on controller (two overlap while it is rolled  *)
(* out), again after each error.  On the managed cluster the agent's       *)
(* process is set up, starts its workers and is probed through the status  *)
(* of its Deployment.                                                      *)
(***************************************************************************)
EXTENDS Naturals, Sequences, FiniteSetsExt

CONSTANTS
    Controllers,  \* processes of the add-on controller
    MaxFaults     \* bound on failures, crashes and removals

ASSUME ConstantsAssumption == MaxFaults \in Nat

VARIABLES
    \* The hub.
    role, binding,  \* do the Role and the RoleBinding exist?
    call,           \* controller -> where its call of AddonRBAC is
    granted,        \* controllers whose latest call returned nil
    intact,         \* history: controllers since whose latest call began
                    \* nobody removed the Role or the RoleBinding
    \* The managed cluster.
    served,     \* does it serve AppliedManifestWorks?
    proc,       \* the main goroutine of the agent's process
    run,        \* the goroutine of Agent.run
    informers,  \* informers in the agent's map
    synced,     \* informers that have listed their objects
    feedback,   \* the values the work agent reported of the Deployment
    healthy,    \* the result of the latest HealthCheck
    faults

hubVars   == <<role, binding, call, granted, intact>>
agentVars == <<proc, run, informers, synced>>
probeVars == <<feedback, healthy>>
vars      == <<hubVars, served, agentVars, probeVars, faults>>
-----------------------------------------------------------------------------
CallPC == {"idle", "getRole", "createRole", "getBinding", "createBinding"}
Value  == [Name : {"ReadyReplicas", "Replicas"}, Integer : Nat]

TypeOK ==
    /\ role \in BOOLEAN /\ binding \in BOOLEAN
    /\ call \in [Controllers -> CallPC]
    /\ granted \subseteq Controllers /\ intact \subseteq Controllers
    /\ served \in BOOLEAN
    /\ proc \in {"down", "setup", "select", "manager"}
    /\ run \in {"none", "begin", "wait", "working"}
    /\ informers \subseteq {"AppliedManifestWork"} /\ synced \subseteq informers
    /\ feedback \in Seq(Value)
    /\ healthy \in BOOLEAN
    /\ faults \in Nat

Fault == faults < MaxFaults /\ faults' = faults + 1
-----------------------------------------------------------------------------
(* AddonRBAC, one request to the hub at a time.  The framework calls it    *)
(* for a new or changed add-on, and again after an error.                  *)
AddonRBAC(c) ==
    /\ call[c] = "idle"
    /\ call' = [call EXCEPT ![c] = "getRole"]
    /\ granted' = granted \ {c} /\ intact' = intact \cup {c}
    /\ UNCHANGED <<role, binding, served, agentVars, probeVars, faults>>

Continue(c, pc) == call' = [call EXCEPT ![c] = pc] /\ UNCHANGED granted

(* The call returns: err # nil, or nil.                                    *)
Fail(c)    == Continue(c, "idle")
Succeed(c) == call' = [call EXCEPT ![c] = "idle"] /\ granted' = granted \cup {c}

(* Get of the Role or the RoleBinding: present, not found, or an error.    *)
\* Mutant: a Role that exists is taken for an error.
getRoleStrict(c) ==
    /\ call[c] = "getRole" /\ UNCHANGED faults
    /\ IF role THEN Fail(c) ELSE Continue(c, "createRole")
    /\ UNCHANGED <<role, binding, intact, served, agentVars, probeVars>>
getRole(c) ==
    /\ call[c] = "getRole"
    /\ \/ Continue(c, IF role THEN "getBinding" ELSE "createRole") /\ UNCHANGED faults
       \/ Fault /\ Fail(c)
    /\ UNCHANGED <<role, binding, intact, served, agentVars, probeVars>>

(* Create fails if the object exists by now; a request that was carried    *)
(* out may have lost its answer.                                           *)
\* Mutant: an error of Create is logged and ignored.
createRoleUnchecked(c) ==
    /\ call[c] = "createRole"
    /\ \/ role' = TRUE /\ UNCHANGED faults
       \/ Fault /\ (role' = TRUE \/ UNCHANGED role)
    /\ Continue(c, "getBinding")
    /\ UNCHANGED <<binding, intact, served, agentVars, probeVars>>
createRole(c) ==
    /\ call[c] = "createRole"
    /\ \/ role' = TRUE /\ UNCHANGED faults
          /\ IF role THEN Fail(c) ELSE Continue(c, "getBinding")
       \/ Fault /\ (role' = TRUE \/ UNCHANGED role) /\ Fail(c)
    /\ UNCHANGED <<binding, intact, served, agentVars, probeVars>>

getBinding(c) ==
    /\ call[c] = "getBinding"
    /\ \/ UNCHANGED faults
          /\ IF binding THEN Succeed(c) ELSE Continue(c, "createBinding")
       \/ Fault /\ Fail(c)
    /\ UNCHANGED <<role, binding, intact, served, agentVars, probeVars>>

createBinding(c) ==
    /\ call[c] = "createBinding"
    /\ \/ binding' = TRUE /\ UNCHANGED faults
          /\ IF binding THEN Fail(c) ELSE Succeed(c)
       \/ Fault /\ (binding' = TRUE \/ UNCHANGED binding) /\ Fail(c)
    /\ UNCHANGED <<role, intact, served, agentVars, probeVars>>

(* The controller's process ends in the middle of a call, and is replaced  *)
(* by one that knows nothing.                                              *)
controllerRestarts(c) ==
    /\ Fault
    /\ call' = [call EXCEPT ![c] = "idle"]
    /\ granted' = granted \ {c}
    /\ UNCHANGED <<role, binding, intact, served, agentVars, probeVars>>

(* Somebody removes the Role or the RoleBinding.                           *)
Remove ==
    /\ Fault
    /\ \/ role /\ role' = FALSE /\ UNCHANGED binding
       \/ binding /\ binding' = FALSE /\ UNCHANGED role
    /\ intact' = {}
    /\ UNCHANGED <<call, granted, served, agentVars, probeVars>>
-----------------------------------------------------------------------------
(* The CRD of AppliedManifestWorks is installed with the work agent.       *)
installCRD ==
    /\ ~served /\ served' = TRUE
    /\ UNCHANGED <<hubVars, agentVars, probeVars, faults>>

(* The kubelet starts the container, at first and whenever it has ended.   *)
containerStarts ==
    /\ proc = "down"
    /\ proc' = "setup"
    /\ UNCHANGED <<hubVars, served, run, informers, synced, probeVars, faults>>

(* os.Exit(1) in RunAgent: the manager, the hub's configuration, a client  *)
(* or the first discovery fails, or the manager fails or is stopped later. *)
exit ==
    /\ proc # "down" /\ Fault
    /\ proc' = "down" /\ run' = "none" /\ informers' = {} /\ synced' = {}
    /\ UNCHANGED <<hubVars, served, probeVars>>

(* NewAgent, and Start up to its select.                                   *)
Start ==
    /\ proc = "setup"
    /\ proc' = "select" /\ run' = "begin"
    /\ UNCHANGED <<hubVars, served, informers, synced, probeVars, faults>>

(* The select: errChan never has anything to read, since run returns only  *)
(* when its own context is cancelled, which is when it returns.  After     *)
(* three seconds the manager is started, whatever run has come to.         *)
startTimesOut ==
    /\ proc = "select"
    /\ proc' = "manager"
    /\ UNCHANGED <<hubVars, served, run, informers, synced, probeVars, faults>>

\* Mutant: the informer is registered by a goroutine of its own.
startInformerLater ==
    /\ run = "begin"
    /\ run' = "wait"
    /\ UNCHANGED <<hubVars, served, proc, informers, synced, probeVars, faults>>
\* Mutant: the informer is kept under the key of another kind.
startInformerMiskeyed ==
    /\ run = "begin"
    /\ informers' = informers \cup {"ManifestWork"}
    /\ run' = "wait"
    /\ UNCHANGED <<hubVars, served, proc, synced, probeVars, faults>>
startAppliedManifestWorkInformer ==
    /\ run = "begin"
    /\ informers' = informers \cup {"AppliedManifestWork"}
    /\ run' = "wait"
    /\ UNCHANGED <<hubVars, served, proc, synced, probeVars, faults>>

(* The informer's first list, retried by the informer until it works.      *)
informerSyncs(i) ==
    /\ i \in informers \ synced /\ served
    /\ synced' = synced \cup {i}
    /\ UNCHANGED <<hubVars, served, proc, run, informers, probeVars, faults>>

(* WaitForCacheSync of the informers in the map, then the workers.         *)
startWorkers ==
    /\ run = "wait" /\ informers \subseteq synced
    /\ run' = "working"
    /\ UNCHANGED <<hubVars, served, proc, informers, synced, probeVars, faults>>
-----------------------------------------------------------------------------
(* The work agent feeds the status of the Deployment back.  There is no    *)
(* readiness probe: the replica is ready while its container runs.  A zero *)
(* is left out of a Deployment's status.                                   *)
ReadyReplicas == IF proc = "down" THEN 0 ELSE 1

FeedBack ==
    /\ feedback' = <<[Name |-> "Replicas", Integer |-> 1]>> \o
          IF ReadyReplicas = 0 THEN << >>
          ELSE <<[Name |-> "ReadyReplicas", Integer |-> ReadyReplicas]>>
    /\ UNCHANGED <<hubVars, served, agentVars, healthy, faults>>

(* nil if the first ReadyReplicas value is at least 1, an error if it is   *)
(* less, if there is none and if there are no values.                      *)
\* Mutant: off by one.
MoreThanOne(values) ==
    \E i \in DOMAIN values : values[i].Name = "ReadyReplicas" /\ values[i].Integer > 1
HealthCheck(values) ==
    LET ready == {i \in DOMAIN values : values[i].Name = "ReadyReplicas"}
    IN  ready # {} /\ values[Min(ready)].Integer >= 1

Probe ==
    /\ healthy' = HealthCheck(feedback)
    /\ UNCHANGED <<hubVars, served, agentVars, feedback, faults>>
-----------------------------------------------------------------------------
Init ==
    /\ role = FALSE /\ binding = FALSE
    /\ call = [c \in Controllers |-> "idle"]
    /\ granted = {} /\ intact = {}
    /\ served \in BOOLEAN
    /\ proc = "down" /\ run = "none" /\ informers = {} /\ synced = {}
    /\ feedback = << >> /\ healthy = FALSE
    /\ faults = 0

Controller(c) ==
    \/ getRole(c) \/ createRole(c) \/ getBinding(c) \/ createBinding(c)

Agent ==
    \/ containerStarts \/ Start \/ startAppliedManifestWorkInformer
    \/ startWorkers \/ \E i \in informers : informerSyncs(i)

Next ==
    \/ \E c \in Controllers : AddonRBAC(c) \/ Controller(c) \/ controllerRestarts(c)
    \/ Remove
    \/ installCRD
    \/ exit
    \/ Agent
    \/ startTimesOut
    \/ FeedBack
    \/ Probe

Spec == Init /\ [][Next]_vars

(* The framework retries after an error; requests are answered; the CRD is *)
(* installed in the end; the kubelet restarts the container; the work      *)
(* agent and the probe run again and again.                                *)
Fairness ==
    /\ \A c \in Controllers :
          WF_vars(c \notin granted /\ AddonRBAC(c)) /\ WF_vars(Controller(c))
    /\ WF_vars(installCRD) /\ WF_vars(Agent) /\ WF_vars(startTimesOut)
    /\ WF_vars(FeedBack) /\ WF_vars(Probe)

FairSpec == Spec /\ Fairness
-----------------------------------------------------------------------------
(* Properties.                                                             *)

(* If the latest call of AddonRBAC returned nil, the agent has its Role    *)
(* and its RoleBinding, unless somebody removed one since the call began:  *)
(* whatever failed, was retried, was created without an answer or by       *)
(* another controller in between.                                          *)
GrantedMeansPermitted == \A c \in granted \cap intact : role /\ binding

(* Workers start only once the AppliedManifestWorks are listed: otherwise  *)
(* every WorkStatus would be retried for want of its owner.                *)
WorkersStartSynced == run = "working" => synced = {"AppliedManifestWork"}

(* Every controller's call succeeds in the end, again and again: two of    *)
(* them that both find no Role and both create it do not block each other. *)
PermissionsGranted == \A c \in Controllers : []<>(c \in granted)

(* Once failures end, the agent's workers run for good, and the add-on is  *)
(* seen as healthy for good.                                               *)
AgentWorksHealthy == <>[](run = "working" /\ healthy)
=============================================================================
