---------------------------- MODULE StatusMirror ----------------------------
(***************************************************************************)
(* What the agent promises about the WorkStatuses of a work's objects,     *)
(* whatever its queue, workers and informers do: the hub shows nothing for *)
(* work that never was KubeStellar's, shows no status the object has not   *)
(* reached, never goes back to an older one, and stops showing an object   *)
(* only if its work ended or there was reason to take it for deleted.      *)
(***************************************************************************)
EXTENDS Naturals

CONSTANT Objects

VARIABLES
    current,  \* object -> version of its status
    doubtful, \* objects deleted, or notified of when their informer was stopped
    work,     \* the ManifestWork: "ks", "plain" or "absent"
    managed,  \* has the ManifestWork had a KubeStellar label?
    shown     \* object -> the set of the version its WorkStatus shows, or {}

mirrorVars == <<current, doubtful, work, managed, shown>>

Init ==
    /\ current = [o \in Objects |-> 0]
    /\ doubtful = {}
    /\ work \in {"ks", "plain"} /\ managed = (work = "ks")
    /\ shown = [o \in Objects |-> {}]

(* Objects come, change and go, and so does their informer; a status only  *)
(* gets newer while its object lives.                                      *)
ObjectsChange ==
    /\ doubtful \subseteq doubtful'
    /\ \A o \in Objects \ doubtful' : current[o] <= current'[o]
    /\ UNCHANGED <<work, managed, shown>>

WorkGone == work' = "absent" /\ UNCHANGED <<current, doubtful, managed, shown>>

Relabel ==
    /\ work # "absent" /\ work' \in {"ks", "plain"}
    /\ managed' = TRUE
    /\ UNCHANGED <<current, doubtful, shown>>

Show(o, s) ==
    /\ shown' = [shown EXCEPT ![o] = s]
    /\ UNCHANGED <<current, doubtful, work, managed>>

Create(o) == shown[o] = {} /\ managed /\ Show(o, {0})

Update(o, v) ==
    /\ shown[o] # {} /\ Show(o, {v})
    /\ o \notin doubtful => v <= current[o] /\ \A u \in shown[o] : u <= v

Withdraw(o) == (o \in doubtful \/ work = "absent") /\ Show(o, {})

Next ==
    \/ ObjectsChange
    \/ WorkGone
    \/ Relabel
    \/ \E o \in Objects : Create(o) \/ Withdraw(o) \/ \E v \in shown'[o] : Update(o, v)

Spec == Init /\ [][Next]_mirrorVars
=============================================================================
