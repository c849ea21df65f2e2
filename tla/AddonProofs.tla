---------------------------- MODULE AddonProofs ----------------------------
(***************************************************************************)
(* Proofs about AddonLifecycle.                                            *)
(***************************************************************************)
EXTENDS AddonLifecycle, TLAPS

(* A call that got past the Role has seen or made it, and what it has seen *)
(* is still there unless somebody removed it; a call under way has not     *)
(* returned.                                                               *)
CallsOK ==
    /\ call \in [Controllers -> CallPC]
    /\ granted \subseteq Controllers
    /\ \A c \in intact \cap Controllers :
          call[c] \in {"getBinding", "createBinding"} => role
    /\ \A c \in Controllers : call[c] # "idle" => c \notin granted

(* The informer is in the map before run waits for those in the map.       *)
StartOK ==
    /\ synced \subseteq informers /\ informers \subseteq {"AppliedManifestWork"}
    /\ run \in {"wait", "working"} => "AppliedManifestWork" \in informers
    /\ run = "working" => informers \subseteq synced

Inv == CallsOK /\ GrantedMeansPermitted /\ StartOK

(* The initial states are states of the invariant.                         *)
LEMMA InitInv == Init => Inv
  BY DEF Init, Inv, CallsOK, GrantedMeansPermitted, StartOK, CallPC

(* A step of AddonRBAC keeps what is known of its calls.                   *)
LEMMA CallStep ==
    ASSUME Inv, NEW c \in Controllers,
           AddonRBAC(c) \/ Controller(c) \/ controllerRestarts(c)
    PROVE  CallsOK' /\ GrantedMeansPermitted'
<1> USE DEF Inv, CallsOK, GrantedMeansPermitted, CallPC
<1>1. CASE AddonRBAC(c)
  BY <1>1 DEF AddonRBAC
<1>2. CASE getRole(c)
  BY <1>2 DEF getRole, Continue, Fail
<1>3. CASE createRole(c)
  <2>1. /\ role => role'
        /\ \/ call' = [call EXCEPT ![c] = "idle"]
           \/ role' /\ call' = [call EXCEPT ![c] = "getBinding"]
    BY <1>3 DEF createRole, Continue, Fail
  <2>2. call[c] = "createRole" /\ UNCHANGED <<granted, binding, intact>>
    BY <1>3 DEF createRole, Continue, Fail
  <2> QED
    BY <2>1, <2>2
<1>4. CASE getBinding(c)
  BY <1>4 DEF getBinding, Continue, Fail, Succeed
<1>5. CASE createBinding(c)
  <2>1. /\ binding => binding'
        /\ call' = [call EXCEPT ![c] = "idle"]
        /\ \/ UNCHANGED granted
           \/ binding' /\ granted' = granted \cup {c}
    BY <1>5 DEF createBinding, Continue, Fail, Succeed
  <2>2. call[c] = "createBinding" /\ UNCHANGED <<role, intact>>
    BY <1>5 DEF createBinding
  <2> QED
    BY <2>1, <2>2
<1>6. CASE controllerRestarts(c)
  BY <1>6 DEF controllerRestarts
<1> QED
  BY <1>1, <1>2, <1>3, <1>4, <1>5, <1>6 DEF Controller

(* Every step keeps the invariant.                                         *)
LEMMA NextInv == Inv /\ [Next]_vars => Inv'
<1> SUFFICES ASSUME Inv, [Next]_vars
             PROVE  Inv'
  OBVIOUS
<1>1. ASSUME NEW c \in Controllers,
             AddonRBAC(c) \/ Controller(c) \/ controllerRestarts(c)
      PROVE  Inv'
  <2>1. UNCHANGED agentVars
    BY <1>1 DEF AddonRBAC, Controller, getRole, createRole, getBinding, createBinding,
       controllerRestarts
  <2>2. StartOK'
    BY <2>1 DEF Inv, StartOK, agentVars
  <2> QED
    BY <1>1, <2>2, CallStep DEF Inv
<1>2. CASE Remove
  BY <1>2 DEF Remove, Inv, CallsOK, GrantedMeansPermitted, StartOK, agentVars
<1>3. ASSUME UNCHANGED hubVars, StartOK'
      PROVE  Inv'
  BY <1>3 DEF Inv, CallsOK, GrantedMeansPermitted, hubVars
<1>4. CASE exit \/ Agent
  <2>1. StartOK'
    BY <1>4 DEF exit, Agent, containerStarts, Start, startAppliedManifestWorkInformer,
       startWorkers, informerSyncs, Inv, StartOK
  <2>2. UNCHANGED hubVars
    BY <1>4 DEF exit, Agent, containerStarts, Start, startAppliedManifestWorkInformer,
       startWorkers, informerSyncs
  <2> QED
    BY <1>3, <2>1, <2>2
<1>5. CASE installCRD \/ startTimesOut \/ FeedBack \/ Probe \/ UNCHANGED vars
  BY <1>3, <1>5 DEF installCRD, startTimesOut, FeedBack, Probe, vars, agentVars, Inv, StartOK
<1> QED
  BY <1>1, <1>2, <1>4, <1>5 DEF Next

(* However many controllers call AddonRBAC and whatever fails, a call that *)
(* returned nil has left the Role and the RoleBinding on the hub.          *)
THEOREM Permitted == Spec => []GrantedMeansPermitted
  BY InitInv, NextInv, PTL DEF Spec, Inv

(* However often the process is restarted, its workers start only after    *)
(* the AppliedManifestWorks are listed.                                    *)
THEOREM StartedSynced == Spec => []WorkersStartSynced
<1>1. Inv => WorkersStartSynced
  BY DEF Inv, StartOK, WorkersStartSynced
<1> QED
  BY <1>1, InitInv, NextInv, PTL DEF Spec
-----------------------------------------------------------------------------
(* The parts of TypeOK that StartOK does not say.                          *)
FlagsOK == role \in BOOLEAN /\ binding \in BOOLEAN /\ served \in BOOLEAN /\ healthy \in BOOLEAN

StatesOK ==
    /\ call \in [Controllers -> CallPC]
    /\ granted \subseteq Controllers /\ intact \subseteq Controllers
    /\ proc \in {"down", "setup", "select", "manager"}
    /\ run \in {"none", "begin", "wait", "working"}
    /\ faults \in Nat

FeedbackOK == feedback \in Seq(Value)

(* Two lists of values, one after the other, are a list of values.         *)
LEMMA ConcatType ==
    ASSUME NEW V, NEW s \in Seq(V), NEW t \in Seq(V)
    PROVE  s \o t \in Seq(V)
  OBVIOUS

(* What the work agent feeds back is a list of the Deployment's values.    *)
LEMMA FeedbackType ==
    ASSUME FeedbackOK, [Next]_vars
    PROVE  FeedbackOK'
<1> DEFINE some == <<[Name |-> "Replicas", Integer |-> 1]>>
           none == << >>
           ready == <<[Name |-> "ReadyReplicas", Integer |-> 1]>>
<1>1. some \in Seq(Value) /\ none \in Seq(Value) /\ ready \in Seq(Value)
  BY DEF Value
<1>2. CASE FeedBack
  <2>1. feedback' = some \o none \/ feedback' = some \o ready
    BY <1>2 DEF FeedBack, ReadyReplicas
  <2>2. some \o none \in Seq(Value) /\ some \o ready \in Seq(Value)
    BY <1>1, ConcatType
  <2> HIDE DEF some, none, ready
  <2> QED
    BY <2>1, <2>2, Zenon DEF FeedbackOK
<1>3. CASE ~FeedBack
  <2>1. feedback' = feedback
    BY <1>3 DEF Next, AddonRBAC, Controller, getRole, createRole, getBinding, createBinding,
       controllerRestarts, Remove, installCRD, exit, Agent, containerStarts, Start,
       startAppliedManifestWorkInformer, startWorkers, informerSyncs, startTimesOut, Probe,
       vars, probeVars
  <2> QED
    BY <2>1 DEF FeedbackOK
<1> QED
  BY <1>2, <1>3

(* Flags stay flags.                                                       *)
LEMMA FlagsStep ==
    ASSUME FlagsOK, [Next]_vars
    PROVE  FlagsOK'
<1> USE DEF FlagsOK
<1>1. ASSUME NEW c \in Controllers,
             AddonRBAC(c) \/ Controller(c) \/ controllerRestarts(c)
      PROVE  FlagsOK'
  BY <1>1, Zenon DEF AddonRBAC, Controller, getRole, createRole, getBinding, createBinding,
     controllerRestarts, probeVars
<1>2. CASE Remove \/ installCRD \/ exit \/ startTimesOut \/ FeedBack
  BY <1>2, Zenon
     DEF Remove, installCRD, exit, startTimesOut, FeedBack, hubVars, probeVars
<1>3. CASE Agent \/ UNCHANGED vars
  BY <1>3, Zenon DEF Agent, containerStarts, Start, startAppliedManifestWorkInformer,
     startWorkers, informerSyncs, vars, hubVars, probeVars
<1>4. CASE Probe
  BY <1>4, Zenon DEF Probe, HealthCheck, hubVars
<1> QED
  BY <1>1, <1>2, <1>3, <1>4 DEF Next

(* Program counters, sets of controllers and the count of faults keep      *)
(* their types.                                                            *)
LEMMA StatesStep ==
    ASSUME StatesOK, [Next]_vars
    PROVE  StatesOK'
<1> USE DEF StatesOK
<1>1. ASSUME NEW c \in Controllers,
             AddonRBAC(c) \/ Controller(c) \/ controllerRestarts(c)
      PROVE  StatesOK'
  BY <1>1 DEF CallPC, AddonRBAC, Controller, getRole, createRole, getBinding,
     createBinding, controllerRestarts, Continue, Fail, Succeed, Fault, agentVars
<1>2. CASE Remove \/ installCRD \/ exit \/ startTimesOut \/ FeedBack \/ Probe
  BY <1>2 DEF Remove, installCRD, exit, startTimesOut, FeedBack, Probe, Fault, hubVars,
     agentVars
<1>3. CASE Agent \/ UNCHANGED vars
  BY <1>3 DEF Agent, containerStarts, Start, startAppliedManifestWorkInformer,
     startWorkers, informerSyncs, vars, hubVars, agentVars
<1> QED
  BY <1>1, <1>2, <1>3 DEF Next

(* Every variable stays in its type: in particular no restart of the       *)
(* process leaves an informer synced that is not in the map, and the probe *)
(* is always given a list of values it can read.                           *)
THEOREM TypeCorrect == Spec => []TypeOK
<1>1. Init => FlagsOK /\ StatesOK /\ FeedbackOK
  <2>1. Init => FeedbackOK
    BY DEF Init, FeedbackOK
  <2>2. Init => FlagsOK
    BY Zenon DEF Init, FlagsOK
  <2>3. Init => StatesOK
    BY DEF Init, StatesOK, CallPC
  <2> QED
    BY <2>1, <2>2, <2>3
<1>2. FlagsOK /\ StatesOK /\ FeedbackOK /\ [Next]_vars => FlagsOK' /\ StatesOK' /\ FeedbackOK'
  BY FlagsStep, StatesStep, FeedbackType
<1>3. FlagsOK /\ StatesOK /\ FeedbackOK /\ Inv => TypeOK
  BY Zenon DEF FlagsOK, StatesOK, FeedbackOK, Inv, StartOK, TypeOK
<1> QED
  BY <1>1, <1>2, <1>3, InitInv, NextInv, PTL DEF Spec
=============================================================================
