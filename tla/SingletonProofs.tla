-------------------------- MODULE SingletonProofs --------------------------
(***************************************************************************)
(* The promise of the agent, one informer for each kind that has objects   *)
(* ("a singleton informer is started for each GVR"), is broken when two    *)
(* goroutines edit the maps of one kind together.  Here it is proved for   *)
(* the schedules that keep them apart: works change one at a time, each    *)
(* change only adds or only takes away, no object is listed by two works,  *)
(* and the process does not restart while there are several works.         *)
(*                                                                         *)
(* The proof has three layers over RegistryProofs!Inv, each used by the    *)
(* next.  Control: at most one goroutine has objects to add or to remove.  *)
(* RefsOK: every reference in objectsCount is tracked, or is in the hands  *)
(* of a worker that will release it.  KindsOK: the three maps of a kind    *)
(* name one running informer or none, or a single goroutine is between.    *)
(***************************************************************************)
EXTENDS RegistryProofs, FiniteSetTheorems

(* The schedules this module is about.                                     *)
Orderly ==
    /\ Pace = "stepwise"
    /\ \A u \in UIDs : Sole(u)
    /\ MaxRestarts = 0 \/ \A m, n \in Works : m = n
-----------------------------------------------------------------------------
(* Control.                                                                *)

GoneFrom(w, n) == Busy(w) /\ worker[w].gone /\ Of(w) = n

(* The deletion of a work is under way once: as an event, as a key with a  *)
(* pointer, or in the hands of one worker.                                 *)
DeletesOK ==
    /\ \A k \in waiting : k[2] = 0
    /\ \A k \in dirty : k[2] # 0 =>
          /\ k[1] \notin present /\ events[k[1]] = 0
          /\ \A w \in Workers : ~GoneFrom(w, k[1])
          /\ \A j \in dirty : j[1] = k[1] /\ j[2] # 0 => j = k
    /\ \A n \in Works \ present : events[n] <= 1
    /\ \A w \in Workers : Busy(w) =>
          /\ worker[w].gone <=> worker[w].key[2] # 0
          /\ Of(w) \in present <=> ~worker[w].gone
          /\ worker[w].gone => events[Of(w)] = 0
    /\ \A n \in Works : \A v, w \in Workers : GoneFrom(v, n) /\ GoneFrom(w, n) => v = w

(* A worker that decides has the present and the tracked list.             *)
DecidingOK == \A w \in Workers :
    /\ Deciding(w) => worker[w].info = applied[Of(w)] /\ worker[w].info # {}
    /\ worker[w].pc = "set" => worker[w].todo = tracked[Of(w)]

(* What the agent tracks for n is not what the work lists.                 *)
Different(n) ==
    \/ n \in present /\ applied[n] # {} /\ tracked[n] # applied[n]
    \/ n \notin present /\ tracked[n] # {}

(* The agent will look at work n again.                                    *)
OnTheWay(n) ==
    \/ events[n] > 0
    \/ n \in present /\ <<n, 0>> \in dirty
    \/ \E w \in Workers : Deciding(w) /\ Of(w) = n
    \/ n \notin present /\ \E k \in dirty : k[1] = n /\ k[2] # 0
    \/ \E w \in Workers : GoneFrom(w, n)

DifferentOK ==
    /\ \A m, n \in Works : Different(m) /\ Different(n) => m = n
    /\ \A n \in Works : Different(n) => OnTheWay(n)
    /\ \A n \in present : Different(n) =>
          applied[n] \subseteq tracked[n] \/ tracked[n] \subseteq applied[n]

\* The steps of startInformers between AddUID and the next object.
Starting == {"count", "setInformer", "setLister", "setStopper"}

Adding(s)   == starter[s].todo # {} \/ starter[s].pc \in Starting
Removing(w) == Stopping(w) /\ (worker[w].todo # {} \/ worker[w].pc \in InLoop)
\* A worker that has read what was tracked for a deleted work.
Past(w)     == Busy(w) /\ worker[w].gone /\ worker[w].pc # "untrack"

(* At most one goroutine adds or removes, and none adds while a work still *)
(* differs from what is tracked for it.                                    *)
ExclusiveOK ==
    /\ \A s, t \in Starters : Adding(s) /\ Adding(t) => s = t
    /\ \A v, w \in Workers : Removing(v) /\ Removing(w) => v = w
    /\ \A s \in Starters, w \in Workers : ~(Adding(s) /\ Removing(w))
    /\ \A s \in Starters, n \in Works : ~(Adding(s) /\ Different(n))
    /\ \A w \in Workers, n \in Works : ~(Removing(w) /\ ~worker[w].gone /\ Different(n))
    /\ \A w \in Workers : Past(w) => tracked[Of(w)] # {}
    /\ \A w \in Workers : worker[w].pc \in {"untrack", "assign", "forget"} => worker[w].todo = {}

Control == DeletesOK /\ DecidingOK /\ DifferentOK /\ ExclusiveOK
-----------------------------------------------------------------------------
(* References.                                                             *)

\* What a worker has yet to release.
InHand(w) == worker[w].todo \cup (IF worker[w].pc = "delUID" THEN {worker[w].cur} ELSE {})

(* objectsCount files an object some work lists under its kind.            *)
CountOK == \A k \in Kinds :
    /\ IsFiniteSet(count[k])
    /\ \A u \in count[k] : KindOf[u] = k /\ \E n \in Works : u \in MayList[n]

(* What is counted is tracked, or in the hands of a worker, or leaked.     *)
HeldOK ==
    /\ \A w \in Workers : Stopping(w) /\ ~worker[w].gone => InHand(w) \cap tracked[Of(w)] = {}
    /\ \A n \in Works : \A u \in MayList[n] : u \in count[KindOf[u]] =>
          \/ u \in leaked \/ u \in tracked[n]
          \/ \E w \in Workers : Stopping(w) /\ Of(w) = n /\ u \in InHand(w)
    /\ \A w \in Workers : Past(w) =>
          \A u \in MayList[Of(w)] : u \in count[KindOf[u]] => u \in leaked \/ u \in InHand(w)

(* What is tracked is counted or will be, until it is being forgotten.     *)
DueOK ==
    /\ \A n \in Works : \A u \in tracked[n] :
          Counted(u) \/ \E w \in Workers : Past(w) /\ Of(w) = n
    /\ \A s \in Starters : \A u \in starter[s].todo :
          /\ u \in count[KindOf[u]] => u \in leaked
          /\ \E n \in Works : u \in tracked[n]

RefsOK == CountOK /\ HeldOK /\ DueOK
-----------------------------------------------------------------------------
(* The maps of one kind.                                                   *)

Up(k) ==
    /\ informers[k] # 0 /\ listers[k] # 0 /\ stoppers[k] # 0
    /\ stoppers[k] \in running[k]
    /\ Mapped(k) => /\ informers[k] = listers[k] /\ listers[k] = stoppers[k]
                    /\ running[k] = {informers[k]}
Down(k) ==
    /\ informers[k] = 0 /\ listers[k] = 0 /\ stoppers[k] = 0
    /\ Mapped(k) => running[k] = {}

\* No goroutine is between two operations on the maps of kind k.
Steady(k) == IF count[k] = {} THEN Down(k) ELSE Up(k)

StarterAt(s, k) == starter[s].pc \in Starting /\ KindOf[starter[s].cur] = k
WorkerAt(w, k)  == worker[w].pc \in InLoop /\ KindOf[worker[w].cur] = k

(* startInformers has counted an object and is creating its informer.      *)
StartKindOK(s) ==
    LET u  == starter[s].cur
        k  == KindOf[u]
        pc == starter[s].pc
    IN  /\ u \in UIDs /\ u \in count[k]
        /\ pc = "count" => IF count[k] = {u} THEN Mapped(k) => running[k] = {} ELSE Up(k)
        /\ pc # "count" => starter[s].id # 0 /\ (Mapped(k) => running[k] = {})
        /\ pc \in {"setLister", "setStopper"} => informers[k] = starter[s].id
        /\ pc = "setStopper" => listers[k] = starter[s].id

(* stopInformers has found the informer, or is in stopInformer.            *)
StopKindOK(w) ==
    LET k  == KindOf[worker[w].cur]
        pc == worker[w].pc
    IN  /\ pc \in {"delUID", "count", "close"} => Up(k)
        /\ pc \notin {"delUID", "count"} => count[k] = {}
        /\ pc \in Closing => (Mapped(k) => running[k] = {})
        /\ pc \in {"delLister", "delStopper"} => informers[k] = 0
        /\ pc = "delStopper" => listers[k] = 0

KindsOK ==
    /\ \A s \in Starters : starter[s].pc \in Starting => StartKindOK(s)
    /\ \A w \in Workers : worker[w].pc \in InLoop => StopKindOK(w)
    /\ \A k \in Kinds : \/ \E s \in Starters : StarterAt(s, k)
                        \/ \E w \in Workers : WorkerAt(w, k)
                        \/ Steady(k)

SInv == Inv /\ Control /\ RefsOK /\ KindsOK /\ StopNeverPanics
-----------------------------------------------------------------------------
(* Facts about states of the invariant.                                    *)

(* A quiet agent tracks what the works list, and no goroutine is active.   *)
LEMMA QuietCalm ==
    ASSUME Inv, Control, Quiet
    PROVE  /\ \A n \in Works : ~Different(n) /\ events[n] = 0
           /\ \A w \in Workers : ~Busy(w)
           /\ \A s \in Starters : ~Adding(s)
           /\ dirty = {}
<1>1. (\A w \in Workers : ~Busy(w)) /\ (\A n \in Works : events[n] = 0) /\ dirty = {}
  BY DEF Quiet, Busy
<1>2. \A n \in Works : ~OnTheWay(n)
  BY <1>1 DEF OnTheWay, GoneFrom, Busy, Deciding
<1>3. \A s \in Starters : ~Adding(s)
  BY DEF Quiet, Inv, CountedOK, Adding, Starting
<1> QED
  BY <1>1, <1>2, <1>3 DEF Control, DifferentOK

(* A busy worker holds the key of a work.                                  *)
LEMMA BusyOf ==
    ASSUME Inv, NEW w \in Workers, Busy(w)
    PROVE  WorkerOK(w) /\ Of(w) \in Works /\ worker[w].key \in Works \X Nat
  BY DEF Inv, WorkersOK, WorkerOK, Of, Key

(* A deleted work differs until it is forgotten.                           *)
LEMMA PastDiffers ==
    ASSUME Inv, Control, NEW w \in Workers, Past(w)
    PROVE  Different(Of(w)) /\ Of(w) \in Works \ present
<1>1. Busy(w) /\ worker[w].gone
  BY DEF Past
<1>2. Of(w) \in Works /\ Of(w) \notin present
  BY <1>1, BusyOf DEF Control, DeletesOK
<1> QED
  BY <1>2 DEF Control, ExclusiveOK, Different

(* Workers that hold the key of one work that exists are the same.         *)
LEMMA OneLiveWorker ==
    ASSUME Inv, Control, NEW v \in Workers, NEW w \in Workers, Busy(v), Busy(w),
           Of(v) = Of(w), ~worker[v].gone, ~worker[w].gone
    PROVE  v = w
<1>1. worker[v].key \in Works \X Nat /\ worker[w].key \in Works \X Nat
  BY BusyOf
<1>2. worker[v].key[2] = 0 /\ worker[w].key[2] = 0
  BY DEF Control, DeletesOK
<1>3. worker[v].key = worker[w].key
  BY <1>1, <1>2 DEF Of
<1> QED
  BY <1>3 DEF Inv, WorkersOK

(* No goroutine is active while the list of an existing work differs.      *)
LEMMA NoneActive ==
    ASSUME Inv, Control, NEW n \in Works, n \in present, Different(n)
    PROVE  (\A s \in Starters : ~Adding(s)) /\ (\A w \in Workers : ~Removing(w))
<1>1. \A s \in Starters : ~Adding(s)
  BY DEF Control, ExclusiveOK
<1>2. ASSUME NEW w \in Workers, Removing(w) PROVE FALSE
  <2>1. worker[w].gone
    BY <1>2 DEF Control, ExclusiveOK
  <2>2. Past(w)
    BY <1>2, <2>1 DEF Control, ExclusiveOK, Removing, Stopping, Past, InLoop, Closing
  <2>3. Different(Of(w)) /\ Of(w) \in Works \ present
    BY <2>2, PastDiffers
  <2> QED
    BY <2>3 DEF Control, DifferentOK
<1> QED
  BY <1>1, <1>2

(* While one goroutine adds, no other does, none removes, and no deleted   *)
(* work is being forgotten.                                                *)
LEMMA AddingAlone ==
    ASSUME Inv, Control, NEW s \in Starters, Adding(s)
    PROVE  /\ \A t \in Starters \ {s} : ~Adding(t)
           /\ \A w \in Workers : ~Removing(w) /\ ~Past(w) /\ worker[w].pc \notin InLoop
<1>1. \A t \in Starters \ {s} : ~Adding(t)
  BY DEF Control, ExclusiveOK
<1>2. \A w \in Workers : ~Removing(w)
  BY DEF Control, ExclusiveOK
<1>3. \A w \in Workers : ~Past(w)
  BY PastDiffers DEF Control, ExclusiveOK
<1>4. \A w \in Workers : worker[w].pc \notin InLoop
  BY <1>2 DEF Removing, Stopping, Busy, Deciding, InLoop, Closing
<1> QED
  BY <1>1, <1>2, <1>3, <1>4

(* While one worker removes, no other does and no goroutine adds.          *)
LEMMA RemovingAlone ==
    ASSUME Inv, Control, NEW w \in Workers, Removing(w)
    PROVE  /\ \A s \in Starters : ~Adding(s) /\ starter[s].pc \notin Starting
           /\ \A v \in Workers \ {w} : ~Removing(v) /\ worker[v].pc \notin InLoop
<1>1. \A s \in Starters : ~Adding(s)
  BY DEF Control, ExclusiveOK
<1>2. \A v \in Workers \ {w} : ~Removing(v)
  BY DEF Control, ExclusiveOK
<1> QED
  BY <1>1, <1>2 DEF Adding, Removing, Stopping, Busy, Deciding, InLoop, Closing
-----------------------------------------------------------------------------
(* Control is kept by every step.                                          *)

(* A change of a work while the agent is quiet makes only that work differ.*)
LEMMA ControlCluster ==
    ASSUME Inv, Control, Orderly, Environment
    PROVE  Control'
<1> USE ConstantsAssumption
<1>0. TypeOK
  BY DEF Inv
<1>1. ASSUME NEW n \in Works, NEW S \in SUBSET MayList[n], ApplyWork(n, S) \/ DeleteWork(n)
      PROVE  Control'
  <2>1. /\ Quiet /\ UNCHANGED <<dirty, waiting, tracked, worker, starter>>
        /\ \A m \in Works \ {n} : /\ applied'[m] = applied[m] /\ events'[m] = events[m]
                                  /\ m \in present' <=> m \in present
        /\ events'[n] = events[n] + 1
        /\ n \in present' => applied'[n] \subseteq tracked[n] \/ tracked[n] \subseteq applied'[n]
        /\ present' \subseteq Works
    BY <1>0, <1>1 DEF ApplyWork, DeleteWork, Orderly, TypeOK, sharedVars, memoVars
  <2>2. /\ \A m \in Works : ~Different(m) /\ events[m] = 0
        /\ \A w \in Workers : ~Busy(w)
        /\ \A s \in Starters : ~Adding(s)
        /\ dirty = {}
    BY <2>1, QuietCalm
  <2>3. \A m \in Works : Different(m)' => m = n
    BY <2>1, <2>2 DEF Different
  <2>4. \A w \in Workers : ~Busy(w)' /\ ~Deciding(w)' /\ ~Stopping(w)'
    BY <2>1, <2>2 DEF Busy, Deciding, Stopping
  <2>5. DeletesOK'
    BY <2>1, <2>2, <2>4 DEF Control, DeletesOK, GoneFrom
  <2>6. DecidingOK'
    BY <2>4 DEF DecidingOK, Deciding
  <2>7. DifferentOK'
    <3>1. OnTheWay(n)'
      BY <2>1, <2>2 DEF OnTheWay
    <3> QED
      BY <2>1, <2>3, <3>1 DEF DifferentOK
  <2>8. ExclusiveOK'
    <3>1. \A s \in Starters : ~Adding(s)'
      BY <2>1, <2>2 DEF Adding
    <3>2. \A w \in Workers : ~Removing(w)' /\ ~Past(w)'
      BY <2>4 DEF Removing, Past
    <3>3. \A w \in Workers : worker'[w].pc \notin {"untrack", "assign", "forget"}
      BY <2>4 DEF Busy
    <3> QED
      BY <3>1, <3>2, <3>3 DEF ExclusiveOK
  <2> QED
    BY <2>5, <2>6, <2>7, <2>8 DEF Control
<1>2. ASSUME NEW k \in Kinds, ChangeCRD(k)
      PROVE  Control'
  <2> USE <1>2 DEF ChangeCRD, queueVars, sharedVars, memoVars
  <2>1. DeletesOK' /\ DecidingOK'
    BY DEF Control, DeletesOK, DecidingOK, GoneFrom, Busy, Of, Deciding
  <2>2. DifferentOK'
    BY DEF Control, DifferentOK, Different, OnTheWay, GoneFrom, Busy, Of, Deciding
  <2>3. ExclusiveOK'
    BY DEF Control, ExclusiveOK, Different, Adding, Removing, Past, Stopping, Busy, Of, Deciding
  <2> QED
    BY <2>1, <2>2, <2>3 DEF Control
<1> QED
  BY <1>1, <1>2 DEF Environment

(* What goroutines do stays as exclusive as it was.                        *)
LEMMA ExclusiveKept ==
    ASSUME ExclusiveOK, UNCHANGED <<present, applied, tracked, worker, starter>>
    PROVE  ExclusiveOK'
  BY DEF ExclusiveOK, Different, Adding, Removing, Past, Stopping, Busy, Of, Deciding

(* The event handler keeps a change on its way.                            *)
LEMMA ControlEnqueue ==
    ASSUME Inv, Control, NEW n \in Works, enqueueObject(n)
    PROVE  Control'
<1>0. TypeOK /\ DeletesOK /\ DecidingOK /\ DifferentOK /\ ExclusiveOK
  BY DEF Inv, Control
<1>1. /\ UNCHANGED <<present, applied, tracked, worker, starter, waiting>>
      /\ events[n] > 0 /\ events'[n] = events[n] - 1
      /\ \A m \in Works \ {n} : events'[m] = events[m]
  BY <1>0 DEF enqueueObject, TypeOK, outerVars, clusterVars, sharedVars, memoVars
<1>2. PICK p \in Nat : /\ dirty' = dirty \cup {<<n, p>>}
                       /\ p = 0 <=> n \in present
  BY <1>0 DEF enqueueObject, TypeOK
<1>3. /\ \A w \in Workers : ~GoneFrom(w, n)
      /\ \A k \in dirty : k[2] # 0 => k[1] # n
      /\ n \notin present => events'[n] = 0
  BY <1>0, <1>1 DEF DeletesOK, GoneFrom, TypeOK
<1>4. DeletesOK'
  <2>1. \A v \in Workers, m \in Works : /\ Busy(v)' <=> Busy(v)
                                        /\ GoneFrom(v, m)' <=> GoneFrom(v, m)
                                        /\ Of(v)' = Of(v)
    BY <1>1 DEF Busy, GoneFrom, Of
  <2>2. ASSUME NEW k \in dirty', k[2] # 0
        PROVE  /\ k[1] \notin present' /\ events'[k[1]] = 0
               /\ \A w \in Workers : ~GoneFrom(w, k[1])'
               /\ \A j \in dirty' : j[1] = k[1] /\ j[2] # 0 => j = k
    <3>1. CASE k = <<n, p>>
      BY <1>1, <1>2, <1>3, <2>1, <2>2, <3>1
    <3>2. CASE k \in dirty
      <4>1. k[1] # n /\ k[1] \in Works
        BY <1>0, <1>3, <2>2, <3>2 DEF TypeOK, Key
      <4> QED
        BY <1>0, <1>1, <1>2, <2>1, <2>2, <3>2, <4>1 DEF DeletesOK
    <3> QED
      BY <1>2, <3>1, <3>2
  <2>3. \A m \in Works \ present' : events'[m] <= 1
    BY <1>0, <1>1, <1>3 DEF DeletesOK
  <2>4. ASSUME NEW w \in Workers, Busy(w)
        PROVE  /\ worker[w].gone <=> worker[w].key[2] # 0
               /\ Of(w) \in present <=> ~worker[w].gone
               /\ worker[w].gone => events'[Of(w)] = 0
    <3>1. Of(w) \in Works
      BY <2>4, BusyOf
    <3> QED
      BY <1>0, <1>1, <1>3, <2>4, <3>1 DEF DeletesOK, GoneFrom
  <2> QED
    BY <1>0, <1>1, <2>1, <2>2, <2>3, <2>4 DEF DeletesOK
<1>5. DecidingOK'
  BY <1>0, <1>1 DEF DecidingOK, Deciding, Of
<1>6. DifferentOK'
  <2>1. \A m \in Works : Different(m)' <=> Different(m)
    BY <1>1 DEF Different
  <2>2. OnTheWay(n)'
    <3>1. <<n, p>> \in dirty' /\ <<n, p>>[1] = n /\ <<n, p>>[2] = p
      BY <1>2
    <3> QED
      BY <1>1, <1>2, <3>1 DEF OnTheWay
  <2>3. ASSUME NEW m \in Works, m # n, OnTheWay(m) PROVE OnTheWay(m)'
    BY <1>1, <1>2, <2>3 DEF OnTheWay, GoneFrom, Busy, Of, Deciding
  <2> QED
    BY <1>0, <1>1, <2>1, <2>2, <2>3 DEF DifferentOK, TypeOK
<1>7. ExclusiveOK'
  BY <1>0, <1>1, ExclusiveKept
<1> QED
  BY <1>4, <1>5, <1>6, <1>7 DEF Control

(* A key that is added again after its delay names no deletion.            *)
LEMMA ControlDelay ==
    ASSUME Inv, Control, NEW k \in waiting, AddRateLimitedFires(k)
    PROVE  Control'
<1>0. TypeOK /\ DeletesOK /\ DecidingOK /\ DifferentOK /\ ExclusiveOK
  BY DEF Inv, Control
<1>1. /\ UNCHANGED <<present, applied, tracked, worker, starter, events>>
      /\ waiting' = waiting \ {k} /\ dirty' = dirty \cup {k} /\ k[2] = 0
  BY <1>0 DEF AddRateLimitedFires, DeletesOK, outerVars, clusterVars, sharedVars, memoVars
<1>2. DeletesOK'
  BY <1>0, <1>1 DEF DeletesOK, GoneFrom, Busy, Of
<1>3. DecidingOK'
  BY <1>0, <1>1 DEF DecidingOK, Deciding, Of
<1>4. DifferentOK'
  BY <1>0, <1>1 DEF DifferentOK, Different, OnTheWay, GoneFrom, Busy, Of, Deciding
<1>5. ExclusiveOK'
  BY <1>0, <1>1, ExclusiveKept
<1> QED
  BY <1>2, <1>3, <1>4, <1>5 DEF Control

(* A worker takes a key: what the key announced is now in its hands.       *)
LEMMA ControlReconcile ==
    ASSUME Inv, Control, NEW w \in Workers, NEW k \in dirty, reconcile(w, k)
    PROVE  Control'
<1> USE ConstantsAssumption
<1> DEFINE n == k[1]
<1>0. TypeOK /\ DeletesOK /\ DecidingOK /\ DifferentOK /\ ExclusiveOK
  BY DEF Inv, Control
<1>1. /\ k \in Works \X Nat /\ worker[w].pc = "idle" /\ dirty' = dirty \ {k}
      /\ UNCHANGED <<present, applied, events, tracked, starter>>
      /\ \A v \in Workers \ {w} : worker'[v] = worker[v]
  BY <1>0 DEF reconcile, outerVars, clusterVars, sharedVars, memoVars, TypeOK, Key
<1>2. \/ n \in present /\ applied[n] = {} /\ waiting' = waiting \cup {k} /\ worker' = worker
      \/ /\ n \in present /\ applied[n] # {} /\ waiting' = waiting
         /\ worker'[w].pc = "get" /\ worker'[w].key = k /\ worker'[w].todo = {}
         /\ worker'[w].info = applied[n] /\ ~worker'[w].gone
      \/ /\ n \notin present /\ k[2] # 0 /\ waiting' = waiting
         /\ worker'[w].pc = "untrack" /\ worker'[w].key = k /\ worker'[w].todo = {}
         /\ worker'[w].gone
      \/ n \notin present /\ k[2] = 0 /\ waiting' = waiting /\ worker' = worker
  <2> DEFINE live == [IdleWorker EXCEPT !.pc = "get", !.key = k, !.info = applied[n]]
             gone == [IdleWorker EXCEPT !.pc = "untrack", !.key = k, !.gone = TRUE]
  <2>1. /\ live.pc = "get" /\ live.key = k /\ live.info = applied[n] /\ live.todo = {}
        /\ live.gone = FALSE
    BY DEF IdleWorker
  <2>2. gone.pc = "untrack" /\ gone.key = k /\ gone.todo = {} /\ gone.gone = TRUE
    BY DEF IdleWorker
  <2> HIDE DEF live, gone
  <2>3. \/ n \in present /\ applied[n] = {} /\ waiting' = waiting \cup {k} /\ worker' = worker
        \/ /\ n \in present /\ applied[n] # {} /\ waiting' = waiting
           /\ worker' = [worker EXCEPT ![w] = live]
        \/ /\ n \notin present /\ k[2] # 0 /\ waiting' = waiting
           /\ worker' = [worker EXCEPT ![w] = gone]
        \/ n \notin present /\ k[2] = 0 /\ waiting' = waiting /\ worker' = worker
    BY DEF reconcile, live, gone
  <2> QED
    BY <1>0, <2>1, <2>2, <2>3 DEF TypeOK
<1> HIDE DEF n
<1>3. n \in Works /\ n = k[1] /\ (k[2] # 0 => n \notin present /\ events[n] = 0)
  BY <1>0, <1>1 DEF DeletesOK, n
<1>4. ~Busy(w) /\ ~Deciding(w) /\ ~Stopping(w) /\ ~Removing(w) /\ ~Past(w)
  BY <1>1 DEF Busy, Deciding, Stopping, Removing, Past
<1>5. \A v \in Workers : Busy(v)' => v = w \/ Busy(v)
  BY <1>1 DEF Busy
<1>6. /\ Busy(w)' => Of(w)' = n /\ worker'[w].key = k
      /\ Busy(w)' => (worker'[w].gone <=> k[2] # 0) /\ (worker'[w].gone <=> n \notin present)
      /\ Deciding(w)' => worker'[w].info = applied[n] /\ applied[n] # {}
      /\ worker'[w].pc # "set"
      /\ worker'[w].pc \in {"idle", "get", "untrack"}
  BY <1>1, <1>2, <1>3 DEF Busy, Of, Deciding
<1>7. DeletesOK'
  <2>1. \A j \in waiting' : j[2] = 0
    BY <1>0, <1>2, <1>3 DEF DeletesOK
  <2>2. ASSUME NEW v \in Workers, NEW m \in Works, GoneFrom(v, m)'
        PROVE  GoneFrom(v, m) \/ (v = w /\ m = n /\ k[2] # 0)
    BY <1>1, <1>6, <2>2 DEF GoneFrom, Busy, Of
  <2>3. ASSUME NEW j \in dirty', j[2] # 0
        PROVE  /\ j[1] \notin present' /\ events'[j[1]] = 0
               /\ \A v \in Workers : ~GoneFrom(v, j[1])'
               /\ \A i \in dirty' : i[1] = j[1] /\ i[2] # 0 => i = j
    <3>1. j \in dirty /\ j # k /\ j[1] \in Works
      BY <1>0, <1>1, <2>3 DEF TypeOK, Key
    <3>2. k[2] # 0 => j[1] # n
      BY <1>0, <1>3, <2>3, <3>1 DEF DeletesOK
    <3> QED
      BY <1>0, <1>1, <2>2, <2>3, <3>1, <3>2 DEF DeletesOK
  <2>4. ASSUME NEW v \in Workers, Busy(v)'
        PROVE  (/\ worker[v].gone <=> worker[v].key[2] # 0
                /\ Of(v) \in present <=> ~worker[v].gone
                /\ worker[v].gone => events[Of(v)] = 0)'
    <3>1. CASE v = w
      BY <1>1, <1>3, <1>6, <2>4, <3>1
    <3>2. CASE v # w
      BY <1>0, <1>1, <2>4, <3>2 DEF DeletesOK, Busy, Of
    <3> QED
      BY <3>1, <3>2
  <2>5. ASSUME NEW m \in Works, NEW v \in Workers, NEW x \in Workers,
               GoneFrom(v, m)', GoneFrom(x, m)'
        PROVE  v = x
    BY <1>0, <1>3, <2>2, <2>5 DEF DeletesOK
  <2> QED
    BY <1>0, <1>1, <2>1, <2>3, <2>4, <2>5 DEF DeletesOK
<1>8. DecidingOK'
  BY <1>0, <1>1, <1>6 DEF DecidingOK, Deciding, Of, Busy
<1>9. DifferentOK'
  <2>1. \A m \in Works : Different(m)' <=> Different(m)
    BY <1>1 DEF Different
  <2>2. ASSUME NEW m \in Works, Different(m), OnTheWay(m) PROVE OnTheWay(m)'
    <3>1. \A v \in Workers : (Deciding(v) => Deciding(v)' /\ Of(v)' = Of(v))
                             /\ (GoneFrom(v, m) => GoneFrom(v, m)')
      BY <1>1, <1>4 DEF Deciding, GoneFrom, Of, Busy
    <3>2. CASE m # n
      <4>1. /\ <<m, 0>> \in dirty => <<m, 0>> \in dirty'
            /\ \A j \in dirty : j[1] = m => j \in dirty'
        BY <1>1, <1>3, <3>2
      <4> QED
        BY <1>1, <2>2, <3>1, <4>1 DEF OnTheWay
    <3>3. CASE m = n /\ n \in present
      <4>1. Deciding(w)' /\ Of(w)' = n
        BY <1>2, <2>2, <3>3 DEF Different, Deciding, Of, n
      <4> QED
        BY <3>3, <4>1 DEF OnTheWay
    <3>4. CASE m = n /\ n \notin present /\ k[2] # 0
      <4>1. GoneFrom(w, n)'
        BY <1>2, <3>4 DEF GoneFrom, Busy, Of, n
      <4> QED
        BY <3>4, <4>1 DEF OnTheWay
    <3>5. CASE m = n /\ n \notin present /\ k[2] = 0
      <4>1. \A j \in dirty : j[2] # 0 => j \in dirty'
        BY <1>1, <3>5
      <4> QED
        BY <1>1, <2>2, <3>1, <3>5, <4>1 DEF OnTheWay
    <3> QED
      BY <3>2, <3>3, <3>4, <3>5
  <2> QED
    BY <1>0, <1>1, <2>1, <2>2 DEF DifferentOK, TypeOK
<1>10. ExclusiveOK'
  <2>1. ~Removing(w)' /\ ~Past(w)' /\ (worker'[w].pc \in {"untrack", "assign", "forget"} => worker'[w].todo = {})
    BY <1>0, <1>1, <1>2, <1>4, <1>6 DEF Removing, Past, Stopping, InLoop, Closing, Busy, Deciding
  <2>2. \A v \in Workers \ {w} : /\ Removing(v)' <=> Removing(v)
                                 /\ Past(v)' <=> Past(v)
                                 /\ worker'[v] = worker[v] /\ Of(v)' = Of(v)
    BY <1>1 DEF Removing, Past, Stopping, Busy, Deciding, Of
  <2>3. /\ \A s \in Starters : Adding(s)' <=> Adding(s)
        /\ \A m \in Works : Different(m)' <=> Different(m)
    BY <1>1 DEF Adding, Different
  <2> QED
    BY <1>0, <1>1, <2>1, <2>2, <2>3 DEF ExclusiveOK
<1> QED
  BY <1>7, <1>8, <1>9, <1>10 DEF Control

(* A worker that keeps its key or gives it back leaves deletions alone.    *)
LEMMA DeletesKept ==
    ASSUME DeletesOK, NEW w \in Workers, Busy(w), UNCHANGED <<present, events, dirty, waiting>>,
           \A v \in Workers \ {w} : worker'[v] = worker[v],
           Busy(w)' => worker'[w].key = worker[w].key /\ worker'[w].gone = worker[w].gone
    PROVE  DeletesOK'
<1>1. ASSUME NEW v \in Workers, Busy(v)'
      PROVE  Busy(v) /\ Of(v)' = Of(v) /\ worker'[v].key = worker[v].key
             /\ worker'[v].gone = worker[v].gone
  BY <1>1 DEF Busy, Of
<1>2. \A v \in Workers : \A m : GoneFrom(v, m)' => GoneFrom(v, m)
  BY <1>1 DEF GoneFrom
<1> QED
  BY <1>1, <1>2 DEF DeletesOK

(* A worker finds the list changed, or finds it tracked already.           *)
LEMMA ControlGet ==
    ASSUME Inv, Control, NEW w \in Workers, trackedGet(w)
    PROVE  Control'
<1> DEFINE n == Of(w)
<1>0. /\ TypeOK /\ DeletesOK /\ DecidingOK /\ DifferentOK /\ ExclusiveOK
      /\ worker[w] \in WorkerState
  BY DEF Inv, Control, TypeOK
<1>1. /\ UNCHANGED <<present, applied, events, dirty, waiting, tracked, starter>>
      /\ worker[w].pc = "get" /\ Busy(w) /\ Deciding(w)
  BY DEF trackedGet, outerVars, clusterVars, queueVars, sharedVars, memoVars, Busy, Deciding
<1>2. /\ \A v \in Workers \ {w} : worker'[v] = worker[v]
      /\ \/ worker'[w] = IdleWorker /\ worker[w].info = tracked[n]
         \/ /\ worker'[w].pc = "set" /\ worker'[w].todo = tracked[n]
            /\ worker'[w].key = worker[w].key /\ worker'[w].info = worker[w].info
            /\ worker'[w].gone = worker[w].gone
  <2>1. TRUE \in DeepEqual(worker[w].info, tracked[n]) => worker[w].info = tracked[n]
    BY DEF DeepEqual
  <2>2. \/ worker' = [worker EXCEPT ![w] = IdleWorker] /\ worker[w].info = tracked[n]
        \/ worker' = [worker EXCEPT ![w].pc = "set", ![w].todo = tracked[n]]
    BY <2>1 DEF trackedGet, Done, Of
  <2> QED
    BY <1>0, <2>2 DEF TypeOK, WorkerState
<1>3. n \in Works /\ n \in present /\ ~worker[w].gone /\ worker[w].info = applied[n]
  BY <1>0, <1>1, BusyOf DEF DeletesOK, DecidingOK, WorkerOK, Stopping
<1> HIDE DEF n
<1>4. DeletesOK'
  BY <1>0, <1>1, <1>2, DeletesKept DEF IdleWorker, Busy
<1>5. DecidingOK'
  BY <1>0, <1>1, <1>2 DEF DecidingOK, Deciding, Of, IdleWorker, n
<1>6. DifferentOK'
  <2>1. \A m \in Works : Different(m)' <=> Different(m)
    BY <1>1 DEF Different
  <2>2. ASSUME NEW m \in Works, Different(m), OnTheWay(m) PROVE OnTheWay(m)'
    <3>1. CASE worker'[w] = IdleWorker /\ m = n
      BY <1>2, <1>3, <2>2, <3>1 DEF Different, IdleWorker
    <3>2. CASE ~(worker'[w] = IdleWorker /\ m = n)
      <4>1. \A v \in Workers : /\ Deciding(v) /\ Of(v) = m => Deciding(v)' /\ Of(v)' = m
                               /\ GoneFrom(v, m) => GoneFrom(v, m)'
        BY <1>1, <1>2, <1>3, <3>2 DEF Deciding, GoneFrom, Of, Busy, n
      <4> QED
        BY <1>1, <2>2, <4>1 DEF OnTheWay
    <3> QED
      BY <3>1, <3>2
  <2> QED
    BY <1>0, <1>1, <2>1, <2>2 DEF DifferentOK, TypeOK
<1>7. ExclusiveOK'
  <2>1. ~Removing(w)' /\ ~Past(w)' /\ worker'[w].pc \in {"idle", "set"}
    BY <1>2, <1>3 DEF Removing, Past, Stopping, Busy, Deciding, IdleWorker
  <2>2. \A v \in Workers \ {w} : /\ Removing(v)' <=> Removing(v)
                                 /\ Past(v)' <=> Past(v)
                                 /\ worker'[v] = worker[v] /\ Of(v)' = Of(v)
    BY <1>2 DEF Removing, Past, Stopping, Busy, Deciding, Of
  <2>3. /\ \A s \in Starters : Adding(s)' <=> Adding(s)
        /\ \A m \in Works : Different(m)' <=> Different(m)
    BY <1>1 DEF Adding, Different
  <2> QED
    BY <1>0, <1>1, <2>1, <2>2, <2>3 DEF ExclusiveOK
<1> QED
  BY <1>4, <1>5, <1>6, <1>7 DEF Control

(* The state after trackedAppliedManifests.Set, in the terms of this       *)
(* module: the new goroutine has what is new, the worker what is gone.     *)
SetEffect(w, s) ==
    LET n    == Of(w)
        old  == tracked[n]
        info == applied[n]
    IN  /\ n \in Works /\ n \in present /\ old \cup info \subseteq MayList[n]
        /\ Busy(w) /\ Deciding(w) /\ ~worker[w].gone
        /\ UNCHANGED <<present, applied, events, dirty, waiting>>
        /\ UNCHANGED <<count, informers, listers, stoppers, running, abandoned, leaked, fault>>
        /\ tracked'[n] = info /\ \A m \in Works \ {n} : tracked'[m] = tracked[m]
        /\ \A t \in Starters \ {s} : starter'[t] = starter[t]
        /\ starter[s].pc = "idle" /\ starter[s].todo = {}
        /\ starter'[s].pc = "discover" /\ starter'[s].todo = info \ old
        /\ \A v \in Workers \ {w} : worker'[v] = worker[v]
        /\ \/ worker'[w].pc = "idle" /\ old = {}
           \/ /\ worker'[w].pc = "stop" /\ worker'[w].todo = old \ info /\ old # {}
              /\ worker'[w].key = worker[w].key /\ worker'[w].gone = worker[w].gone
        /\ info # old => Different(n)

(* trackedSet does exactly this.                                           *)
LEMMA TrackedSetEffect ==
    ASSUME Inv, Control, NEW w \in Workers, NEW s \in Starters, trackedSet(w, s)
    PROVE  SetEffect(w, s)
<1> DEFINE n    == Of(w)
           old  == worker[w].todo
           info == worker[w].info
<1>0. /\ TypeOK /\ DeletesOK /\ DecidingOK /\ DifferentOK /\ ExclusiveOK
      /\ worker[w] \in WorkerState
  BY DEF Inv, Control, TypeOK
<1>1. /\ UNCHANGED <<present, applied, events, dirty, waiting>>
      /\ UNCHANGED <<count, informers, listers, stoppers, running, abandoned, leaked, fault>>
      /\ worker[w].pc = "set" /\ Busy(w) /\ Deciding(w)
      /\ starter[s].pc = "idle" /\ starter[s].todo = {}
      /\ tracked' = [tracked EXCEPT ![n] = info]
  BY DEF trackedSet, outerVars, clusterVars, miscVars, queueVars, mapVars, Busy, Deciding, Set, Of,
         Inv, CountedOK
<1>2. /\ WorkerOK(w) /\ n \in Works /\ n \in present /\ ~worker[w].gone
      /\ old = tracked[n] /\ info = applied[n] /\ info # {}
  BY <1>0, <1>1, BusyOf DEF DeletesOK, DecidingOK, WorkerOK, Stopping
<1>3. tracked'[n] = info /\ \A m \in Works \ {n} : tracked'[m] = tracked[m]
  BY <1>0, <1>1, <1>2 DEF TypeOK
<1>4. /\ \A t \in Starters \ {s} : starter'[t] = starter[t]
      /\ starter'[s].todo = info \ old /\ starter'[s].pc = "discover"
  <2>1. starter' = [starter EXCEPT ![s] =
                       [IdleStarter EXCEPT !.pc = "discover", !.todo = info \ old]]
    BY DEF trackedSet, Added
  <2> QED
    BY <1>0, <2>1 DEF TypeOK, IdleStarter
<1>5. /\ \A v \in Workers \ {w} : worker'[v] = worker[v]
      /\ \/ worker'[w].pc = "idle" /\ old = {}
         \/ /\ worker'[w].pc = "stop" /\ worker'[w].todo = old \ info /\ old # {}
            /\ worker'[w].key = worker[w].key /\ worker'[w].gone = worker[w].gone
  <2>1. CASE worker' = [worker EXCEPT ![w] = IdleWorker] /\ old = {}
    BY <1>0, <2>1 DEF TypeOK, IdleWorker
  <2>2. CASE worker' = [worker EXCEPT ![w].pc = "stop", ![w].todo = old \ info] /\ old # {}
    BY <1>0, <2>2 DEF TypeOK, WorkerState
  <2> QED
    BY <2>1, <2>2 DEF trackedSet, Done, Removed
<1>6. info # old => Different(n)
  BY <1>2 DEF Different
<1>7. old \cup info \subseteq MayList[n]
  BY <1>2 DEF WorkerOK
<1> HIDE DEF n, old, info
<1> QED
  BY <1>1, <1>2, <1>3, <1>4, <1>5, <1>6, <1>7 DEF SetEffect, n

(* After the new list is tracked only one goroutine has work: the list     *)
(* only grew or only shrank, and nothing was active before.                *)
LEMMA ControlSet ==
    ASSUME Inv, Control, NEW w \in Workers, NEW s \in Starters, trackedSet(w, s)
    PROVE  Control'
<1> DEFINE n    == Of(w)
           old  == tracked[n]
           info == applied[n]
<1>0. TypeOK /\ DeletesOK /\ DecidingOK /\ DifferentOK /\ ExclusiveOK
  BY DEF Inv, Control
<1>1. SetEffect(w, s)
  BY TrackedSetEffect
<1>2. /\ n \in Works /\ n \in present
      /\ Busy(w) /\ Deciding(w) /\ ~worker[w].gone
      /\ UNCHANGED <<present, applied, events, dirty, waiting>>
      /\ tracked'[n] = info /\ \A m \in Works \ {n} : tracked'[m] = tracked[m]
      /\ \A t \in Starters \ {s} : starter'[t] = starter[t]
      /\ ~Adding(s)
      /\ starter'[s].pc = "discover" /\ starter'[s].todo = info \ old
      /\ \A v \in Workers \ {w} : worker'[v] = worker[v]
      /\ \/ worker'[w].pc = "idle"
         \/ /\ worker'[w].pc = "stop" /\ worker'[w].todo = old \ info
            /\ worker'[w].key = worker[w].key /\ worker'[w].gone = worker[w].gone
      /\ info # old => Different(n)
  BY <1>1 DEF SetEffect, Adding, Starting
<1> HIDE DEF n, old, info
<1>3. DeletesOK'
  BY <1>0, <1>2, DeletesKept DEF Busy
<1>4. ASSUME NEW v \in Workers, v # w, Busy(v), ~worker[v].gone PROVE Of(v) # n
  BY <1>2, <1>4, OneLiveWorker DEF n
<1>5. DecidingOK'
  <2>1. ASSUME NEW v \in Workers, Deciding(v)'
        PROVE  v # w /\ worker'[v] = worker[v] /\ Of(v)' = Of(v) /\ Deciding(v)
               /\ Of(v) # n /\ Of(v) \in Works
    <3>1. v # w
      BY <1>2, <2>1 DEF Deciding
    <3>2. worker'[v] = worker[v] /\ Deciding(v) /\ Busy(v) /\ Of(v)' = Of(v)
      BY <1>2, <2>1, <3>1 DEF Deciding, Busy, Of
    <3>3. ~worker[v].gone /\ Of(v) \in Works
      BY <3>2, BusyOf DEF WorkerOK, Stopping
    <3> QED
      BY <1>4, <3>1, <3>2, <3>3
  <2> QED
    BY <1>0, <1>2, <2>1 DEF DecidingOK, Deciding
<1>6. \A m \in Works : Different(m)' => m # n /\ Different(m)
  BY <1>2 DEF Different, info
<1>7. DifferentOK'
  <2>1. ASSUME NEW m \in Works, m # n, OnTheWay(m) PROVE OnTheWay(m)'
    <3>1. \A v \in Workers : /\ Deciding(v) /\ Of(v) = m => Deciding(v)' /\ Of(v)' = m
                             /\ GoneFrom(v, m) => GoneFrom(v, m)'
      BY <1>2, <2>1 DEF Deciding, GoneFrom, Of, Busy, n
    <3> QED
      BY <1>2, <2>1, <3>1 DEF OnTheWay
  <2> QED
    BY <1>0, <1>2, <1>6, <2>1 DEF DifferentOK, TypeOK
<1>8. ExclusiveOK'
  <2>1. \A v \in Workers \ {w} : /\ Removing(v)' <=> Removing(v)
                                 /\ Past(v)' <=> Past(v)
                                 /\ worker'[v] = worker[v] /\ Of(v)' = Of(v)
    BY <1>2 DEF Removing, Past, Stopping, Busy, Deciding, Of
  <2>2. \A t \in Starters \ {s} : Adding(t)' <=> Adding(t)
    BY <1>2 DEF Adding
  <2>3. ~Past(w)' /\ worker'[w].pc \notin {"untrack", "assign", "forget"}
    BY <1>2 DEF Past, Busy
  <2>4. \A v \in Workers : Past(v)' => tracked'[Of(v)'] # {}
    <3> SUFFICES ASSUME NEW v \in Workers, Past(v)' PROVE tracked'[Of(v)'] # {}
      OBVIOUS
    <3>1. v # w /\ Past(v) /\ Of(v)' = Of(v)
      BY <2>1, <2>3
    <3>2. Of(v) \in Works \ present
      BY <3>1, PastDiffers
    <3> QED
      BY <1>0, <1>2, <3>1, <3>2 DEF ExclusiveOK
  <2>5. \A v \in Workers : worker'[v].pc \in {"untrack", "assign", "forget"} => worker'[v].todo = {}
    BY <1>0, <2>1, <2>3 DEF ExclusiveOK
  <2>6. CASE info = old
    <3>1. ~Adding(s)' /\ ~Removing(w)'
      BY <1>2, <2>6 DEF Adding, Starting, Removing, InLoop, Closing, Stopping, Busy
    <3> QED
      BY <1>0, <1>6, <2>1, <2>2, <2>4, <2>5, <3>1 DEF ExclusiveOK
  <2>7. CASE info # old
    <3>1. /\ \A t \in Starters : ~Adding(t)
          /\ \A v \in Workers : ~Removing(v)
          /\ \A m \in Works : ~Different(m)'
      BY <1>0, <1>2, <1>6, <2>7, NoneActive DEF DifferentOK
    <3>2. ~(Adding(s)' /\ Removing(w)')
      <4>1. info \subseteq old \/ old \subseteq info
        BY <1>0, <1>2, <2>7 DEF DifferentOK, info, old
      <4> QED
        BY <1>2, <4>1 DEF Adding, Starting, Removing, InLoop, Closing, Stopping, Busy
    <3> QED
      BY <2>1, <2>2, <2>4, <2>5, <3>1, <3>2 DEF ExclusiveOK
  <2> QED
    BY <2>6, <2>7
<1> QED
  BY <1>3, <1>5, <1>7, <1>8 DEF Control

(* A worker looks up or forgets what is tracked for a deleted work.        *)
GoneEffect(w) ==
    LET n == Of(w)
    IN  /\ n \in Works \ present /\ GoneFrom(w, n) /\ worker[w].todo = {}
        /\ worker[w].pc \in {"untrack", "forget"}
        /\ UNCHANGED <<present, applied, events, dirty, waiting, starter>>
        /\ UNCHANGED <<count, informers, listers, stoppers, running, abandoned, leaked, fault>>
        /\ \A m \in Works \ {n} : tracked'[m] = tracked[m]
        /\ \A v \in Workers \ {w} : worker'[v] = worker[v]
        /\ \/ /\ worker'[w].pc = "idle" /\ tracked'[n] = {}
              /\ worker[w].pc = "untrack" => tracked[n] = {}
           \/ /\ worker'[w].pc = "stop" /\ worker'[w].todo = tracked[n]
              /\ worker'[w].key = worker[w].key /\ worker'[w].gone = worker[w].gone
              /\ tracked' = tracked /\ tracked[n] # {}

(* trackedGetGone and trackedDelete do exactly this.                       *)
LEMMA TrackedGoneEffect ==
    ASSUME Inv, Control, NEW w \in Workers, trackedGetGone(w) \/ trackedDelete(w)
    PROVE  GoneEffect(w)
<1> DEFINE n == Of(w)
<1>0. /\ TypeOK /\ DeletesOK /\ ExclusiveOK
      /\ worker[w] \in WorkerState
  BY DEF Inv, Control, TypeOK
<1>1. /\ UNCHANGED <<present, applied, events, dirty, waiting, starter>>
      /\ UNCHANGED <<count, informers, listers, stoppers, running, abandoned, leaked, fault>>
      /\ worker[w].pc \in {"untrack", "forget"} /\ Busy(w)
  BY DEF trackedGetGone, trackedDelete, outerVars, clusterVars, miscVars, queueVars, sharedVars,
         memoVars, mapVars, Busy
<1>2. n \in Works \ present /\ GoneFrom(w, n) /\ worker[w].todo = {}
  BY <1>0, <1>1, BusyOf DEF DeletesOK, WorkerOK, GoneFrom, ExclusiveOK
<1>3. /\ \A v \in Workers \ {w} : worker'[v] = worker[v]
      /\ \/ /\ worker'[w].pc = "idle" /\ tracked'[n] = {}
            /\ worker[w].pc = "untrack" => tracked[n] = {}
         \/ /\ worker'[w].pc = "stop" /\ worker'[w].todo = tracked[n]
            /\ worker'[w].key = worker[w].key /\ worker'[w].gone = worker[w].gone
            /\ tracked' = tracked /\ tracked[n] # {}
      /\ \A m \in Works \ {n} : tracked'[m] = tracked[m]
  <2>1. CASE trackedDelete(w)
    <3>1. /\ worker' = [worker EXCEPT ![w] = IdleWorker] /\ tracked' = [tracked EXCEPT ![n] = {}]
          /\ worker[w].pc = "forget"
      BY <2>1 DEF trackedDelete, Done, Delete, Of
    <3> QED
      BY <1>0, <1>2, <3>1 DEF TypeOK, IdleWorker
  <2>2. CASE trackedGetGone(w)
    <3>1. /\ tracked' = tracked
          /\ \/ worker' = [worker EXCEPT ![w] = IdleWorker] /\ tracked[n] = {}
             \/ worker' = [worker EXCEPT ![w].pc = "stop", ![w].todo = tracked[n]] /\ tracked[n] # {}
      BY <2>2 DEF trackedGetGone, Done, Of, sharedVars, memoVars
    <3> QED
      BY <1>0, <3>1 DEF TypeOK, IdleWorker, WorkerState
  <2> QED
    BY <2>1, <2>2
<1> HIDE DEF n
<1> QED
  BY <1>1, <1>2, <1>3 DEF GoneEffect, n

(* A worker that forgets a deleted work is the only one to do so.          *)
LEMMA ControlForget ==
    ASSUME Inv, Control, NEW w \in Workers, trackedGetGone(w) \/ trackedDelete(w)
    PROVE  Control'
<1> DEFINE n == Of(w)
<1>0. TypeOK /\ DeletesOK /\ DecidingOK /\ DifferentOK /\ ExclusiveOK
  BY DEF Inv, Control
<1>1. /\ UNCHANGED <<present, applied, events, dirty, waiting, starter>>
      /\ worker[w].pc \in {"untrack", "forget"} /\ Busy(w) /\ ~Deciding(w)
  BY TrackedGoneEffect DEF GoneEffect, Busy, Deciding
<1>2. /\ n \in Works /\ worker[w].gone /\ n \notin present /\ GoneFrom(w, n)
      /\ worker[w].todo = {}
  BY TrackedGoneEffect DEF GoneEffect, GoneFrom
<1>3. /\ \A v \in Workers \ {w} : worker'[v] = worker[v]
      /\ \/ worker'[w].pc = "idle" /\ tracked'[n] = {}
         \/ /\ worker'[w].pc = "stop" /\ worker'[w].todo = tracked[n]
            /\ worker'[w].key = worker[w].key /\ worker'[w].gone = worker[w].gone
            /\ tracked' = tracked /\ tracked[n] # {}
      /\ \A m \in Works \ {n} : tracked'[m] = tracked[m]
  BY TrackedGoneEffect DEF GoneEffect
<1> HIDE DEF n
<1>4. DeletesOK'
  BY <1>0, <1>1, <1>3, DeletesKept DEF Busy
<1>5. ASSUME NEW v \in Workers, v # w, Past(v) PROVE Of(v) # n /\ Of(v) \in Works
  BY <1>0, <1>2, <1>5, BusyOf DEF Past, DeletesOK, GoneFrom
<1>6. DecidingOK'
  <2>1. ASSUME NEW v \in Workers, Deciding(v)'
        PROVE  v # w /\ worker'[v] = worker[v] /\ Of(v)' = Of(v) /\ Deciding(v)
               /\ Of(v) # n /\ Of(v) \in Works
    <3>1. v # w
      BY <1>3, <2>1 DEF Deciding
    <3>2. worker'[v] = worker[v] /\ Deciding(v) /\ Busy(v) /\ Of(v)' = Of(v)
      BY <1>3, <2>1, <3>1 DEF Deciding, Busy, Of
    <3>3. Of(v) \in present /\ Of(v) \in Works
      BY <1>0, <3>2, BusyOf DEF WorkerOK, Stopping, DeletesOK
    <3> QED
      BY <1>2, <3>1, <3>2, <3>3
  <2> QED
    BY <1>0, <1>1, <1>3, <2>1 DEF DecidingOK, Deciding
<1>7. \A m \in Works : Different(m)' => Different(m) /\ (m = n => worker'[w].pc = "stop")
  BY <1>1, <1>2, <1>3 DEF Different
<1>8. DifferentOK'
  <2>1. ASSUME NEW m \in Works, Different(m)', OnTheWay(m) PROVE OnTheWay(m)'
    <3>1. \A v \in Workers : /\ Deciding(v) /\ Of(v) = m => Deciding(v)' /\ Of(v)' = m
                             /\ GoneFrom(v, m) => GoneFrom(v, m)'
      BY <1>1, <1>3, <1>7, <2>1 DEF Deciding, GoneFrom, Of, Busy, n
    <3> QED
      BY <1>1, <2>1, <3>1 DEF OnTheWay
  <2>2. \A m \in present : tracked'[m] = tracked[m]
    BY <1>0, <1>2, <1>3 DEF TypeOK
  <2> QED
    BY <1>0, <1>1, <1>7, <2>1, <2>2 DEF DifferentOK, TypeOK
<1>9. ExclusiveOK'
  <2>1. \A v \in Workers \ {w} : /\ Removing(v)' <=> Removing(v)
                                 /\ Past(v)' <=> Past(v)
                                 /\ worker'[v] = worker[v] /\ Of(v)' = Of(v)
    BY <1>3 DEF Removing, Past, Stopping, Busy, Deciding, Of
  <2>2. \A s \in Starters : Adding(s)' <=> Adding(s)
    BY <1>1 DEF Adding
  <2>3. worker'[w].pc \notin {"untrack", "assign", "forget"}
    BY <1>3
  <2>4. \A v \in Workers : Past(v)' => tracked'[Of(v)'] # {}
    <3>1. Past(w)' => tracked'[Of(w)'] # {}
      BY <1>3 DEF Past, Busy, Of, n
    <3>2. \A v \in Workers \ {w} : Past(v)' => tracked'[Of(v)'] # {}
      BY <1>0, <1>3, <1>5, <2>1 DEF ExclusiveOK
    <3> QED
      BY <3>1, <3>2
  <2>5. \A v \in Workers : worker'[v].pc \in {"untrack", "assign", "forget"} => worker'[v].todo = {}
    BY <1>0, <2>1, <2>3 DEF ExclusiveOK
  <2>6. CASE worker'[w].pc = "idle"
    <3>1. ~Removing(w)'
      BY <2>6 DEF Removing, Stopping, Busy
    <3> QED
      BY <1>0, <1>7, <2>1, <2>2, <2>4, <2>5, <3>1 DEF ExclusiveOK
  <2>7. CASE worker'[w].pc # "idle"
    <3>1. Different(n) /\ worker'[w].gone
      BY <1>2, <1>3, <2>7 DEF Different
    <3>2. \A s \in Starters : ~Adding(s)
      BY <1>0, <1>2, <3>1 DEF ExclusiveOK
    <3>3. ASSUME NEW v \in Workers, v # w, Removing(v) PROVE FALSE
      <4>1. worker[v].gone
        BY <1>0, <1>2, <3>1, <3>3 DEF ExclusiveOK
      <4>2. Past(v)
        BY <1>0, <3>3, <4>1 DEF ExclusiveOK, Removing, Stopping, Past, InLoop, Closing
      <4>3. Different(Of(v)) /\ Of(v) \in Works
        BY <4>2, PastDiffers
      <4> QED
        BY <1>0, <1>2, <1>5, <3>1, <3>3, <4>2, <4>3 DEF DifferentOK
    <3> QED
      BY <2>1, <2>2, <2>4, <2>5, <3>1, <3>2, <3>3 DEF ExclusiveOK
  <2> QED
    BY <2>6, <2>7
<1> QED
  BY <1>4, <1>6, <1>8, <1>9 DEF Control

(* A step of stopInformers makes no worker active, and a worker that stops *)
(* the informers of a deleted work goes on to forget it.                   *)
LEMMA StopKeeps ==
    ASSUME Inv, NEW w \in Workers, StopStep(w)
    PROVE  /\ Removing(w)' => Removing(w)
           /\ worker[w].gone => Busy(w)'
           /\ worker'[w].pc \in {"assign", "forget"} => worker'[w].todo = {}
<1>0. /\ worker[w] \in WorkerState /\ worker \in [Workers -> WorkerState]
  BY DEF Inv, TypeOK
<1>1. ASSUME NEW pc, worker[w].pc \in InLoop, pc \notin {"assign", "forget", "idle"}, Goto(w, pc)
      PROVE  /\ Removing(w) /\ Busy(w)' /\ worker'[w].pc \notin {"assign", "forget"}
  <2>1. worker'[w].pc = pc
    BY <1>0, <1>1 DEF Goto, WorkerState
  <2> QED
    BY <1>1, <2>1 DEF Removing, Stopping, Busy, Deciding, InLoop, Closing
<1>2. ASSUME stopReturns(w)
      PROVE  /\ ~Removing(w)' /\ (worker[w].gone => Busy(w)')
             /\ worker'[w].pc \in {"assign", "forget"} => worker'[w].todo = {}
  <2>1. CASE ~worker[w].gone /\ worker' = [worker EXCEPT ![w] = IdleWorker]
    <3>1. worker'[w].pc = "idle"
      BY <1>0, <2>1 DEF IdleWorker
    <3> QED
      BY <2>1, <3>1 DEF Removing, Stopping, Busy
  <2>2. CASE worker[w].gone /\ worker' = [worker EXCEPT ![w].pc = "forget", ![w].todo = {}]
    <3>1. worker'[w].pc = "forget" /\ worker'[w].todo = {}
      BY <1>0, <2>2 DEF WorkerState
    <3> QED
      BY <3>1 DEF Removing, Busy, InLoop, Closing
  <2> QED
    BY <1>2, <2>1, <2>2 DEF stopReturns, Done
<1>3. ASSUME NEW u \in worker[w].todo, stopInformers(w, u)
      PROVE  /\ Removing(w)
             /\ worker[w].gone => Busy(w)'
             /\ worker'[w].pc \in {"assign", "forget"} => worker'[w].todo = {}
  <2>1. worker[w].pc = "stop" /\ Removing(w)
    BY <1>3 DEF stopInformers, Removing, Stopping, Busy, Deciding
  <2>2. CASE stopReturns(w)
    BY <1>2, <2>1, <2>2
  <2>3. CASE ~stopReturns(w)
    <3>1. \/ worker' = worker
          \/ worker' = [worker EXCEPT ![w].todo = @ \ {u}]
          \/ worker' = [worker EXCEPT ![w].pc = "delUID", ![w].cur = u, ![w].todo = @ \ {u}]
      BY <1>3, <2>3 DEF stopInformers
    <3>2. worker'[w].pc \in {"stop", "delUID"}
      BY <1>0, <2>1, <3>1 DEF WorkerState
    <3> QED
      BY <2>1, <3>2 DEF Busy
  <2> QED
    BY <2>2, <2>3
<1>4. CASE \/ stopDeleteUID(w) \/ stopGetUIDCount(w) \/ informersDelete(w)
           \/ listersDelete(w) \/ stoppersDelete(w)
  <2>1. /\ worker[w].pc \in InLoop
        /\ \E pc \in {"count", "close", "stop", "delLister", "delStopper"} : Goto(w, pc)
    BY <1>4 DEF stopDeleteUID, stopGetUIDCount, informersDelete, listersDelete, stoppersDelete,
       InLoop, Closing
  <2> QED
    BY <1>1, <2>1
<1>5. CASE stopInformer(w)
  <2>1. worker[w].pc = "close" /\ worker[w].pc \in InLoop
    BY <1>5 DEF stopInformer, InLoop
  <2>2. CASE Goto(w, "delInformer")
    BY <1>1, <2>1, <2>2
  <2>3. CASE worker' = worker
    BY <2>1, <2>3 DEF Busy, Removing, Stopping, Deciding
  <2> QED
    BY <1>5, <2>2, <2>3 DEF stopInformer
<1>6. CASE stopGetRestMapper(w)
  <2>1. PICK m : worker' = [worker EXCEPT ![w].pc = "assign", ![w].snap = m]
    BY <1>6 DEF stopGetRestMapper
  <2>2. worker'[w].pc = "assign" /\ worker'[w].todo = {}
    BY <1>0, <1>6, <2>1 DEF stopGetRestMapper, WorkerState
  <2> QED
    BY <2>2 DEF Removing, Busy, InLoop, Closing
<1>7. CASE stopSetRestMapper(w)
  BY <1>2, <1>7 DEF stopSetRestMapper
<1> QED
  BY <1>3, <1>4, <1>5, <1>6, <1>7 DEF StopStep

(* stopInformers keeps Control.                                            *)
LEMMA ControlStop ==
    ASSUME Inv, Control, NEW w \in Workers, StopStep(w)
    PROVE  Control'
<1>0. TypeOK /\ WorkersOK /\ DeletesOK /\ DecidingOK /\ DifferentOK /\ ExclusiveOK
  BY DEF Inv, Control
<1>1. StopEffect(w) /\ StopMove(w)
  BY <1>0, WorkerStopEffect DEF StopEffect
<1>2. /\ UNCHANGED <<present, applied, events, dirty, waiting, tracked, starter>>
      /\ Busy(w) /\ Stopping(w) /\ ~Deciding(w) /\ worker[w].pc # "untrack"
      /\ \A v \in Workers \ {w} : worker'[v] = worker[v]
      /\ Busy(w)' => worker'[w].key = worker[w].key /\ worker'[w].gone = worker[w].gone
      /\ worker'[w].pc \notin {"get", "set", "untrack"}
  BY <1>1 DEF StopEffect, StopMove, clusterVars, queueVars, Stopping, Busy
<1>3. DeletesOK'
  BY <1>0, <1>2, DeletesKept
<1>4. \A v \in Workers : (Deciding(v)' <=> Deciding(v)) /\ (Deciding(v) => worker'[v] = worker[v])
  BY <1>2 DEF Deciding
<1>5. DecidingOK'
  BY <1>0, <1>2, <1>4 DEF DecidingOK, Deciding, Of
<1>6. DifferentOK'
  <2>1. \A m \in Works : Different(m)' <=> Different(m)
    BY <1>2 DEF Different
  <2>2. \A v \in Workers, m \in Works : GoneFrom(v, m) => GoneFrom(v, m)'
    BY <1>2, StopKeeps DEF GoneFrom, Busy, Of
  <2>3. ASSUME NEW m \in Works, OnTheWay(m) PROVE OnTheWay(m)'
    BY <1>2, <1>4, <2>2, <2>3 DEF OnTheWay, Of
  <2> QED
    BY <1>0, <1>2, <2>1, <2>3 DEF DifferentOK, TypeOK
<1>7. ExclusiveOK'
  <2>1. /\ \A s \in Starters : Adding(s)' <=> Adding(s)
        /\ \A m \in Works : Different(m)' <=> Different(m)
    BY <1>2 DEF Adding, Different
  <2>2. \A v \in Workers : /\ Removing(v)' => Removing(v) /\ worker'[v].gone = worker[v].gone
                           /\ Past(v)' => Past(v) /\ Of(v)' = Of(v)
    <3>1. /\ Removing(w)' => Removing(w) /\ worker'[w].gone = worker[w].gone
          /\ Past(w)' => Past(w) /\ Of(w)' = Of(w)
      BY <1>2, StopKeeps DEF Removing, Past, Stopping, Of
    <3>2. \A v \in Workers \ {w} : /\ Removing(v)' => Removing(v) /\ worker'[v].gone = worker[v].gone
                                   /\ Past(v)' => Past(v) /\ Of(v)' = Of(v)
      BY <1>2 DEF Removing, Past, Stopping, Busy, Deciding, Of
    <3> QED
      BY <3>1, <3>2
  <2>3. \A v \in Workers : worker'[v].pc \in {"untrack", "assign", "forget"} => worker'[v].todo = {}
    BY <1>0, <1>2, StopKeeps DEF ExclusiveOK
  <2> QED
    BY <1>0, <1>2, <2>1, <2>2, <2>3 DEF ExclusiveOK
<1> QED
  BY <1>3, <1>5, <1>6, <1>7 DEF Control

(* A step of startInformers takes no new objects on.                       *)
LEMMA StartKeeps ==
    ASSUME Inv, NEW s \in Starters, StarterStep(s)
    PROVE  /\ Adding(s)' => Adding(s)
           /\ starter'[s].todo \subseteq starter[s].todo
<1>0. starter[s] \in StarterState /\ starter \in [Starters -> StarterState]
  BY DEF Inv, TypeOK
<1>1. CASE startGetRestMapper(s) \/ startSetRestMapper(s)
  <2>1. starter'[s].pc \notin Starting /\ starter'[s].todo = starter[s].todo
    BY <1>0, <1>1 DEF startGetRestMapper, startSetRestMapper, StarterState, Starting
  <2> QED
    BY <2>1 DEF Adding
<1>2. ASSUME NEW u \in starter[s].todo, startInformers(s, u)
      PROVE  /\ Adding(s)' => Adding(s)
             /\ starter'[s].todo \subseteq starter[s].todo
  <2>1. \/ starter' = starter
        \/ starter' = [starter EXCEPT ![s] = IdleStarter]
        \/ starter' = [starter EXCEPT ![s].todo = @ \ {u}]
        \/ starter' = [starter EXCEPT ![s].pc = "count", ![s].cur = u, ![s].todo = @ \ {u}]
    BY <1>2 DEF startInformers
  <2>2. starter'[s].todo \subseteq starter[s].todo
    BY <1>0, <2>1 DEF StarterState, IdleStarter
  <2> QED
    BY <2>2 DEF Adding
<1>3. CASE startGetUIDCount(s) \/ informersSet(s) \/ listersSet(s) \/ stoppersSet(s)
  <2>1. starter[s].pc \in Starting
    BY <1>3 DEF startGetUIDCount, informersSet, listersSet, stoppersSet, Starting
  <2>2. starter'[s].todo = starter[s].todo
    BY <1>0, <1>3 DEF startGetUIDCount, informersSet, listersSet, stoppersSet, StarterState
  <2> QED
    BY <2>1, <2>2 DEF Adding
<1>4. CASE startReturns(s)
  BY <1>0, <1>4 DEF startReturns, IdleStarter, Adding, Starting
<1> QED
  BY <1>1, <1>2, <1>3, <1>4 DEF StarterStep

(* startInformers keeps Control.                                           *)
LEMMA ControlStart ==
    ASSUME Inv, Control, NEW s \in Starters, StarterStep(s)
    PROVE  Control'
<1>0. TypeOK /\ CountedOK /\ DeletesOK /\ DecidingOK /\ DifferentOK /\ ExclusiveOK
  BY DEF Inv, Control
<1>1. /\ UNCHANGED <<present, applied, events, dirty, waiting, tracked, worker>>
      /\ \A t \in Starters \ {s} : starter'[t] = starter[t]
  BY <1>0, StarterEffect DEF StartEffect, clusterVars, queueVars
<1>2. DeletesOK' /\ DecidingOK'
  BY <1>0, <1>1 DEF DeletesOK, DecidingOK, GoneFrom, Busy, Of, Deciding
<1>3. DifferentOK'
  BY <1>0, <1>1 DEF DifferentOK, Different, OnTheWay, GoneFrom, Busy, Of, Deciding
<1>4. ExclusiveOK'
  <2>1. \A t \in Starters : Adding(t)' => Adding(t)
    BY <1>1, StartKeeps DEF Adding
  <2>2. /\ \A w \in Workers : /\ Removing(w)' <=> Removing(w)
                              /\ Past(w)' <=> Past(w) /\ Of(w)' = Of(w)
        /\ \A m \in Works : Different(m)' <=> Different(m)
    BY <1>1 DEF Removing, Past, Stopping, Busy, Deciding, Of, Different
  <2> QED
    BY <1>0, <1>1, <2>1, <2>2 DEF ExclusiveOK
<1> QED
  BY <1>2, <1>3, <1>4 DEF Control

(* After a restart nothing is tracked; Orderly allows it with one work.    *)
LEMMA ControlRestart == ASSUME Inv, Orderly, Restart PROVE Control'
<1>1. /\ \A w \in Workers : worker'[w].pc = "idle" /\ ~Busy(w)' /\ ~Deciding(w)'
      /\ \A s \in Starters : ~Adding(s)'
      /\ \A n \in Works : tracked'[n] = {}
      /\ dirty' = {} /\ waiting' = {} /\ UNCHANGED <<present, applied>>
      /\ \A n \in Works : events'[n] = IF n \in present THEN 1 ELSE 0
  BY DEF Restart, IdleWorker, IdleStarter, Busy, Deciding, Adding, Starting
<1>2. \A m, n \in Works : m = n
  BY ConstantsAssumption DEF Orderly, Restart, Inv, TypeOK
<1>3. present \subseteq Works
  BY DEF Inv, TypeOK
<1>4. DeletesOK' /\ DecidingOK'
  BY <1>1 DEF DeletesOK, DecidingOK, GoneFrom
<1>5. DifferentOK'
  BY <1>1, <1>2, <1>3 DEF DifferentOK, Different, OnTheWay
<1>6. ExclusiveOK'
  BY <1>1 DEF ExclusiveOK, Removing, Past, Stopping
<1> QED
  BY <1>4, <1>5, <1>6 DEF Control

(* Every step keeps Control (a crash ends the process and nothing else).   *)
LEMMA ControlNext == ASSUME Inv, Control, Orderly, Next, ~Crash PROVE Control'
<1>1. ASSUME NEW w \in Workers, WorkerStep(w) PROVE Control'
  BY <1>1, ControlReconcile, ControlGet, ControlSet, ControlForget, ControlStop
     DEF WorkerStep, StopStep
<1> QED
  BY <1>1, ControlCluster, ControlEnqueue, ControlDelay, ControlStart, ControlRestart DEF Next
-----------------------------------------------------------------------------
(* RefsOK is kept by every step.                                           *)

(* Steps that touch neither references nor goroutines.                     *)
LEMMA RefsKept ==
    ASSUME RefsOK, UNCHANGED <<tracked, count, worker, starter, leaked, abandoned>>
    PROVE  RefsOK'
<1>1. CountOK'
  BY DEF RefsOK, CountOK
<1>2. HeldOK'
  BY DEF RefsOK, HeldOK, InHand, Past, Stopping, Busy, Deciding, Of
<1>3. DueOK'
  BY DEF RefsOK, DueOK, Counted, Past, Busy, Of
<1> QED
  BY <1>1, <1>2, <1>3 DEF RefsOK

(* Taking a key or comparing lists moves no reference.                     *)
LEMMA RefsLook ==
    ASSUME Inv, Control, RefsOK, NEW w \in Workers,
           trackedGet(w) \/ \E k \in dirty : reconcile(w, k)
    PROVE  RefsOK'
<1>0. worker \in [Workers -> WorkerState] /\ CountOK /\ HeldOK /\ DueOK
  BY DEF Inv, TypeOK, RefsOK
<1>1. UNCHANGED <<tracked, count, starter, leaked, abandoned>> /\ ~Stopping(w)
  BY DEF trackedGet, reconcile, outerVars, miscVars, sharedVars, memoVars, Stopping, Busy, Deciding
<1>2. /\ \A v \in Workers \ {w} : worker'[v] = worker[v]
      /\ \/ worker'[w].pc = "idle"
         \/ worker'[w].pc \in {"get", "set"} /\ ~worker'[w].gone
         \/ worker'[w].pc = "untrack" /\ worker'[w].gone
  <2>1. CASE trackedGet(w)
    <3>1. ~worker[w].gone
      BY <2>1, BusyOf DEF trackedGet, Busy, Deciding, WorkerOK, Stopping
    <3>2. \/ worker' = [worker EXCEPT ![w] = IdleWorker]
          \/ worker' = [worker EXCEPT ![w].pc = "set", ![w].todo = tracked[worker[w].key[1]]]
      BY <2>1 DEF trackedGet, Done
    <3> QED
      BY <1>0, <3>1, <3>2 DEF IdleWorker, WorkerState
  <2>2. ASSUME NEW k \in dirty, reconcile(w, k)
        PROVE  /\ \A v \in Workers \ {w} : worker'[v] = worker[v]
               /\ \/ worker'[w].pc = "idle"
                  \/ worker'[w].pc \in {"get", "set"} /\ ~worker'[w].gone
                  \/ worker'[w].pc = "untrack" /\ worker'[w].gone
    <3> DEFINE live == [IdleWorker EXCEPT !.pc = "get", !.key = k, !.info = applied[k[1]]]
               gone == [IdleWorker EXCEPT !.pc = "untrack", !.key = k, !.gone = TRUE]
    <3>1. live.pc = "get" /\ live.gone = FALSE /\ gone.pc = "untrack" /\ gone.gone = TRUE
      BY DEF IdleWorker
    <3> HIDE DEF live, gone
    <3>2. /\ worker[w].pc = "idle"
          /\ \/ worker' = worker
             \/ worker' = [worker EXCEPT ![w] = live]
             \/ worker' = [worker EXCEPT ![w] = gone]
      BY <2>2 DEF reconcile, live, gone
    <3> QED
      BY <1>0, <3>1, <3>2
  <2> QED
    BY <2>1, <2>2
<1>3. ~Past(w) /\ ~Past(w)' /\ (Stopping(w)' => worker'[w].gone)
  <2>1. ~Past(w)
    BY <1>1, BusyOf DEF Past, WorkerOK
  <2> QED
    BY <1>2, <2>1 DEF Past, Stopping, Busy, Deciding
<1>4. \A v \in Workers \ {w} : /\ Stopping(v)' <=> Stopping(v)
                               /\ Past(v)' <=> Past(v)
                               /\ Of(v)' = Of(v) /\ InHand(v)' = InHand(v)
                               /\ worker'[v] = worker[v]
  BY <1>2 DEF Stopping, Past, Busy, Deciding, Of, InHand
<1>5. CountOK'
  BY <1>0, <1>1 DEF CountOK
<1>6. HeldOK'
  BY <1>0, <1>1, <1>3, <1>4 DEF HeldOK
<1>7. DueOK'
  BY <1>0, <1>1, <1>3, <1>4 DEF DueOK, Counted
<1> QED
  BY <1>5, <1>6, <1>7 DEF RefsOK

(* Tracking a list: what is new is due to the goroutine, what is gone is   *)
(* in the hands of the worker.                                             *)
LEMMA RefsSet ==
    ASSUME Inv, Control, Orderly, RefsOK, NEW w \in Workers, NEW s \in Starters, trackedSet(w, s)
    PROVE  RefsOK'
<1> DEFINE n    == Of(w)
           old  == tracked[n]
           info == applied[n]
<1>0. TypeOK /\ CountOK /\ HeldOK /\ DueOK
  BY DEF Inv, RefsOK
<1>1. /\ n \in Works /\ n \in present /\ old \cup info \subseteq MayList[n]
      /\ Busy(w) /\ Deciding(w) /\ ~worker[w].gone
      /\ UNCHANGED <<count, abandoned, leaked>>
      /\ tracked'[n] = info /\ \A m \in Works \ {n} : tracked'[m] = tracked[m]
      /\ \A t \in Starters \ {s} : starter'[t] = starter[t]
      /\ starter[s].todo = {} /\ starter'[s].todo = info \ old
      /\ \A v \in Workers \ {w} : worker'[v] = worker[v]
      /\ \/ worker'[w].pc = "idle" /\ old = {}
         \/ /\ worker'[w].pc = "stop" /\ worker'[w].todo = old \ info
            /\ worker'[w].key = worker[w].key /\ worker'[w].gone = worker[w].gone
      /\ info # old => Different(n)
  BY TrackedSetEffect DEF SetEffect
<1> HIDE DEF n, old, info
<1>2. ~Stopping(w) /\ ~Past(w) /\ ~Past(w)'
  BY <1>1 DEF Stopping, Past, Busy
<1>3. \A v \in Workers \ {w} : /\ Stopping(v)' <=> Stopping(v)
                               /\ Past(v)' <=> Past(v)
                               /\ Of(v)' = Of(v) /\ InHand(v)' = InHand(v)
                               /\ worker'[v] = worker[v]
  BY <1>1 DEF Stopping, Past, Busy, Deciding, Of, InHand
<1>4. ASSUME NEW v \in Workers, v # w, Stopping(v) PROVE Of(v) # n /\ Of(v) \in Works
  <2>1. Busy(v) /\ Of(v) \in Works
    BY <1>4, BusyOf DEF Stopping
  <2>2. CASE worker[v].gone
    BY <1>1, <2>1, <2>2 DEF Control, DeletesOK
  <2>3. CASE ~worker[v].gone
    BY <1>1, <1>4, <2>1, <2>3, OneLiveWorker DEF n
  <2> QED
    BY <2>1, <2>2, <2>3
<1>5. \A v \in Workers : Past(v) => Of(v) # n
  BY <1>1, PastDiffers
<1>6. CountOK'
  BY <1>0, <1>1 DEF CountOK
<1>7. HeldOK'
  <2>1. \A v \in Workers : (Stopping(v) /\ ~worker[v].gone => InHand(v) \cap tracked[Of(v)] = {})'
    <3>1. Stopping(w)' => (InHand(w) \cap tracked[Of(w)] = {})'
      BY <1>1 DEF Stopping, Busy, InHand, Of, n
    <3>2. \A v \in Workers \ {w} : Stopping(v)' => tracked'[Of(v)'] = tracked[Of(v)]
      BY <1>1, <1>3, <1>4
    <3> QED
      BY <1>0, <1>3, <3>1, <3>2 DEF HeldOK
  <2>2. ASSUME NEW m \in Works, NEW u \in MayList[m], u \in count[KindOf[u]]
        PROVE  (\/ u \in leaked \/ u \in tracked[m]
                \/ \E v \in Workers : Stopping(v) /\ Of(v) = m /\ u \in InHand(v))'
    <3>1. \/ u \in leaked \/ u \in tracked[m]
          \/ \E v \in Workers : Stopping(v) /\ Of(v) = m /\ u \in InHand(v)
      BY <1>0, <2>2 DEF HeldOK
    <3>2. CASE u \in leaked
      BY <1>1, <3>2
    <3>3. CASE \E v \in Workers : Stopping(v) /\ Of(v) = m /\ u \in InHand(v)
      BY <1>2, <1>3, <3>3
    <3>4. CASE u \in tracked[m] /\ m # n
      BY <1>1, <3>4
    <3>5. CASE u \in tracked[m] /\ m = n /\ u \notin info
      <4>1. u \in old /\ u \in worker'[w].todo /\ worker'[w].pc = "stop" /\ Of(w)' = n
        BY <1>1, <3>5 DEF old, Of, n
      <4> QED
        BY <3>5, <4>1 DEF Stopping, Busy, Deciding, InHand
    <3>6. CASE u \in tracked[m] /\ m = n /\ u \in info
      BY <1>1, <3>6
    <3> QED
      BY <3>1, <3>2, <3>3, <3>4, <3>5, <3>6
  <2>3. \A v \in Workers : (Past(v) =>
           \A u \in MayList[Of(v)] : u \in count[KindOf[u]] => u \in leaked \/ u \in InHand(v))'
    BY <1>0, <1>1, <1>2, <1>3 DEF HeldOK
  <2> QED
    BY <1>1, <2>1, <2>2, <2>3 DEF HeldOK
<1>8. DueOK'
  <2>1. \A u : Counted(u) => Counted(u)'
    BY <1>1 DEF Counted
  <2>2. \A u \in info \ old : Counted(u)'
    BY <1>1 DEF Counted
  <2>3. ASSUME NEW m \in Works, NEW u \in tracked'[m]
        PROVE  Counted(u)' \/ \E v \in Workers : Past(v)' /\ Of(v)' = m
    <3>1. CASE m = n /\ u \notin old
      BY <1>1, <2>2, <2>3, <3>1
    <3>2. CASE m = n /\ u \in old
      BY <1>0, <1>1, <1>5, <2>1, <3>2 DEF DueOK, old
    <3>3. CASE m # n
      BY <1>0, <1>1, <1>2, <1>3, <2>1, <2>3, <3>3 DEF DueOK
    <3> QED
      BY <3>1, <3>2, <3>3
  <2>4. ASSUME NEW u \in info \ old
        PROVE  (u \in count[KindOf[u]] => u \in leaked) /\ \E m \in Works : u \in tracked'[m]
    <3>1. u \in MayList[n] /\ u \in tracked'[n]
      BY <1>1
    <3>2. \A v \in Workers : Stopping(v) => Of(v) # n
      BY <1>2, <1>4
    <3> QED
      BY <1>0, <1>1, <3>1, <3>2 DEF HeldOK, old
  <2>5. ASSUME NEW t \in Starters, t # s, NEW u \in starter[t].todo
        PROVE  (u \in count[KindOf[u]] => u \in leaked) /\ \E m \in Works : u \in tracked'[m]
    <3>1. Adding(t)
      BY <2>5 DEF Adding
    <3>2. ~Different(n)
      BY <1>1, <3>1 DEF Control, ExclusiveOK
    <3>3. \A m \in Works : tracked'[m] = tracked[m]
      BY <1>1, <3>2 DEF old
    <3> QED
      BY <1>0, <2>5, <3>3 DEF DueOK
  <2> QED
    BY <1>1, <2>3, <2>4, <2>5 DEF DueOK
<1> QED
  BY <1>6, <1>7, <1>8 DEF RefsOK

(* Forgetting a deleted work: its references are taken over, then gone.    *)
LEMMA RefsForget ==
    ASSUME Inv, Control, RefsOK, NEW w \in Workers, trackedGetGone(w) \/ trackedDelete(w)
    PROVE  RefsOK'
<1> DEFINE n == Of(w)
<1>0. TypeOK /\ CountOK /\ HeldOK /\ DueOK
  BY DEF Inv, RefsOK
<1>1. /\ n \in Works \ present /\ GoneFrom(w, n) /\ worker[w].todo = {}
      /\ worker[w].pc \in {"untrack", "forget"}
      /\ UNCHANGED <<count, abandoned, leaked, starter>>
      /\ \A m \in Works \ {n} : tracked'[m] = tracked[m]
      /\ \A v \in Workers \ {w} : worker'[v] = worker[v]
      /\ \/ /\ worker'[w].pc = "idle" /\ tracked'[n] = {}
            /\ worker[w].pc = "untrack" => tracked[n] = {}
         \/ /\ worker'[w].pc = "stop" /\ worker'[w].todo = tracked[n]
            /\ worker'[w].key = worker[w].key /\ worker'[w].gone = worker[w].gone
            /\ tracked' = tracked /\ tracked[n] # {}
  BY TrackedGoneEffect DEF GoneEffect
<1> HIDE DEF n
<1>2. InHand(w) = {} /\ Busy(w) /\ worker[w].gone /\ (worker[w].pc = "forget" => Past(w))
  BY <1>1 DEF InHand, Past, GoneFrom
<1>3. \A v \in Workers \ {w} : /\ Stopping(v)' <=> Stopping(v)
                               /\ Past(v)' <=> Past(v)
                               /\ Of(v)' = Of(v) /\ InHand(v)' = InHand(v)
                               /\ worker'[v] = worker[v]
  BY <1>1 DEF Stopping, Past, Busy, Deciding, Of, InHand
<1>4. \A v \in Workers \ {w} : Busy(v) => Of(v) # n \/ ~worker[v].gone
  BY <1>1 DEF Control, DeletesOK, GoneFrom
<1>5. ASSUME NEW v \in Workers, v # w, Stopping(v) PROVE Of(v) # n
  BY <1>1, <1>4, <1>5 DEF Control, DeletesOK, Stopping
<1>6. /\ Stopping(w)' => worker'[w].gone
      /\ Stopping(w)' => InHand(w)' = tracked[n] /\ Of(w)' = n
  BY <1>1, <1>2 DEF Stopping, Busy, InHand, Of, n
<1>7. CountOK'
  BY <1>0, <1>1 DEF CountOK
<1>8. HeldOK'
  <2>1. \A v \in Workers : (Stopping(v) /\ ~worker[v].gone => InHand(v) \cap tracked[Of(v)] = {})'
    <3>1. \A v \in Workers \ {w} : Stopping(v) => tracked'[Of(v)] = tracked[Of(v)]
      BY <1>1, <1>5, BusyOf DEF Stopping
    <3> QED
      BY <1>0, <1>3, <1>6, <3>1 DEF HeldOK
  <2>2. ASSUME NEW u \in MayList[n], u \in count[KindOf[u]]
        PROVE  u \in leaked \/ (u \in tracked[n] /\ worker[w].pc = "untrack")
    <3>1. CASE worker[w].pc = "forget"
      BY <1>0, <1>2, <2>2, <3>1 DEF HeldOK, n
    <3>2. CASE worker[w].pc = "untrack"
      BY <1>0, <1>1, <1>2, <1>5, <2>2, <3>2 DEF HeldOK
    <3> QED
      BY <1>1, <3>1, <3>2
  <2>3. ASSUME NEW m \in Works, NEW u \in MayList[m], u \in count[KindOf[u]]
        PROVE  (\/ u \in leaked \/ u \in tracked[m]
                \/ \E v \in Workers : Stopping(v) /\ Of(v) = m /\ u \in InHand(v))'
    <3>1. CASE m = n
      BY <1>1, <2>2, <2>3, <3>1
    <3>2. CASE m # n
      <4>1. \/ u \in leaked \/ u \in tracked[m]
            \/ \E v \in Workers : Stopping(v) /\ Of(v) = m /\ u \in InHand(v)
        BY <1>0, <2>3 DEF HeldOK
      <4> QED
        BY <1>1, <1>2, <1>3, <3>2, <4>1
    <3> QED
      BY <3>1, <3>2
  <2>4. \A v \in Workers : (Past(v) =>
           \A u \in MayList[Of(v)] : u \in count[KindOf[u]] => u \in leaked \/ u \in InHand(v))'
    <3>1. Past(w)' => Stopping(w)'
      BY <1>1 DEF Past, Stopping, Busy, Deciding
    <3>2. Past(w)' =>
             \A u \in MayList[n] : u \in count[KindOf[u]] => u \in leaked \/ u \in InHand(w)'
      BY <1>6, <2>2, <3>1
    <3> QED
      BY <1>0, <1>1, <1>3, <1>6, <3>1, <3>2 DEF HeldOK
  <2> QED
    BY <1>1, <2>1, <2>3, <2>4 DEF HeldOK
<1>9. DueOK'
  <2>1. \A u : Counted(u)' <=> Counted(u)
    BY <1>1 DEF Counted
  <2>2. ASSUME NEW m \in Works, NEW u \in tracked'[m]
        PROVE  Counted(u)' \/ \E v \in Workers : Past(v)' /\ Of(v)' = m
    <3>1. CASE m = n
      <4>1. Past(w)' /\ Of(w)' = n
        BY <1>1, <1>2, <2>2, <3>1 DEF Past, Busy, Of, n
      <4> QED
        BY <3>1, <4>1
    <3>2. CASE m # n
      <4>1. u \in tracked[m]
        BY <1>1, <2>2, <3>2
      <4>2. Counted(u) \/ \E v \in Workers \ {w} : Past(v) /\ Of(v) = m
        BY <1>0, <3>2, <4>1 DEF DueOK, n
      <4> QED
        BY <1>3, <2>1, <4>2
    <3> QED
      BY <3>1, <3>2
  <2>3. ASSUME NEW s \in Starters, NEW u \in starter[s].todo
        PROVE  (u \in count[KindOf[u]] => u \in leaked) /\ \E m \in Works : u \in tracked'[m]
    <3>1. Adding(s)
      BY <2>3 DEF Adding
    <3>2. tracked[n] = {}
      BY <1>1, <3>1 DEF Control, ExclusiveOK, Different
    <3> QED
      BY <1>0, <1>1, <2>3, <3>2 DEF DueOK
  <2> QED
    BY <1>1, <2>2, <2>3 DEF DueOK
<1> QED
  BY <1>7, <1>8, <1>9 DEF RefsOK

(* Between two objects of stopInformers' loop every kind is steady.        *)
LEMMA StopSteady ==
    ASSUME Inv, Control, KindsOK, NEW w \in Workers, worker[w].pc = "stop", worker[w].todo # {}
    PROVE  Removing(w) /\ \A k \in Kinds : Steady(k)
<1>1. Removing(w)
  BY DEF Removing, Stopping, Busy, Deciding
<1>2. /\ \A s \in Starters : starter[s].pc \notin Starting
      /\ \A v \in Workers : worker[v].pc \notin InLoop
  BY <1>1, RemovingAlone DEF InLoop, Closing
<1> QED
  BY <1>1, <1>2 DEF KindsOK, StarterAt, WorkerAt

(* A step of stopInformers lets go of an object only when it is no longer  *)
(* counted or when it has been leaked.                                     *)
ReleaseEffect(w) ==
    /\ leaked \subseteq leaked'
    /\ Stopping(w)' => InHand(w)' \subseteq InHand(w)
    /\ \A u \in InHand(w) : \/ Stopping(w)' /\ u \in InHand(w)'
                            \/ u \in leaked'
                            \/ u \notin count'[KindOf[u]]
    /\ \/ count' = count
       \/ /\ worker[w].pc = "delUID"
          /\ count' = [count EXCEPT ![KindOf[worker[w].cur]] = @ \ {worker[w].cur}]

(* Every step of stopInformers is a ReleaseEffect.                         *)
LEMMA StopReleases ==
    ASSUME Inv, Control, KindsOK, NEW w \in Workers, StopStep(w)
    PROVE  ReleaseEffect(w)
<1> USE ConstantsAssumption
<1>0. /\ worker[w] \in WorkerState /\ worker \in [Workers -> WorkerState]
      /\ worker[w].pc \in InLoop => worker[w].cur \in UIDs
      /\ worker[w].todo \subseteq UIDs /\ count \in [Kinds -> SUBSET UIDs]
  BY DEF Inv, TypeOK, WorkersOK, WorkerOK, Busy, InLoop, Closing, WorkerState
<1>1. ASSUME NEW pc \in InLoop \cup {"stop"}, pc # "delUID", Goto(w, pc)
      PROVE  InHand(w)' = worker[w].todo /\ Stopping(w)'
  <2>1. worker'[w].pc = pc /\ worker'[w].todo = worker[w].todo
    BY <1>0, <1>1 DEF Goto, WorkerState
  <2> QED
    BY <1>1, <2>1 DEF InHand, Stopping, Busy, Deciding, InLoop, Closing
<1>2. ASSUME stopReturns(w)
      PROVE  Stopping(w)' => InHand(w)' = {}
  <2>1. CASE worker' = [worker EXCEPT ![w] = IdleWorker]
    BY <1>0, <2>1 DEF IdleWorker, Stopping, Busy
  <2>2. CASE worker' = [worker EXCEPT ![w].pc = "forget", ![w].todo = {}]
    <3>1. worker'[w].pc = "forget" /\ worker'[w].todo = {}
      BY <1>0, <2>2 DEF WorkerState
    <3> QED
      BY <3>1 DEF InHand
  <2> QED
    BY <1>2, <2>1, <2>2 DEF stopReturns, Done
<1>3. ASSUME NEW u \in worker[w].todo, stopInformers(w, u)
      PROVE  ReleaseEffect(w)
  <2>1. worker[w].pc = "stop" /\ count' = count /\ InHand(w) = worker[w].todo
    BY <1>3 DEF stopInformers, sharedVars, memoVars, InHand
  <2>2. Stopping(w) /\ u \in UIDs /\ KindOf[u] \in Kinds
    BY <1>0, <2>1 DEF Stopping, Busy, Deciding
  <2>3. CASE worker' = worker /\ leaked' = leaked
    BY <2>1, <2>2, <2>3 DEF ReleaseEffect, InHand, Stopping, Busy, Deciding
  <2>4. CASE stopReturns(w) /\ leaked' = leaked \cup worker[w].todo
    BY <1>2, <2>1, <2>4 DEF ReleaseEffect
  <2>5. CASE /\ informers[KindOf[u]] = 0 /\ leaked' = leaked
             /\ worker' = [worker EXCEPT ![w].todo = @ \ {u}]
    <3>1. count[KindOf[u]] = {}
      BY <2>1, <2>2, <2>5, StopSteady DEF Steady, Up
    <3>2. worker'[w].pc = "stop" /\ worker'[w].todo = worker[w].todo \ {u}
      BY <1>0, <2>1, <2>5 DEF WorkerState
    <3>3. InHand(w)' = InHand(w) \ {u} /\ Stopping(w)'
      BY <2>1, <3>2 DEF InHand, Stopping, Busy, Deciding
    <3> QED
      BY <2>1, <2>5, <3>1, <3>3 DEF ReleaseEffect
  <2>6. CASE /\ leaked' = leaked
             /\ worker' = [worker EXCEPT ![w].pc = "delUID", ![w].cur = u, ![w].todo = @ \ {u}]
    <3>1. worker'[w].pc = "delUID" /\ worker'[w].todo = worker[w].todo \ {u} /\ worker'[w].cur = u
      BY <1>0, <2>6 DEF WorkerState
    <3>2. InHand(w)' = InHand(w) /\ Stopping(w)'
      BY <2>1, <3>1 DEF InHand, Stopping, Busy, Deciding
    <3> QED
      BY <2>1, <2>6, <3>2 DEF ReleaseEffect
  <2> QED
    BY <1>3, <2>3, <2>4, <2>5, <2>6 DEF stopInformers
<1>4. CASE stopDeleteUID(w)
  <2>1. /\ worker[w].pc = "delUID" /\ leaked' = leaked /\ Goto(w, "count")
        /\ count' = [count EXCEPT ![KindOf[worker[w].cur]] = @ \ {worker[w].cur}]
    BY <1>4 DEF stopDeleteUID, DeleteUID, outerVars, miscVars
  <2>2. /\ worker[w].cur \in UIDs /\ InHand(w) = worker[w].todo \cup {worker[w].cur}
        /\ InHand(w)' = worker[w].todo /\ Stopping(w)'
    BY <1>0, <1>1, <2>1 DEF InHand, InLoop
  <2>3. worker[w].cur \notin count'[KindOf[worker[w].cur]]
    BY <1>0, <2>1, <2>2
  <2> QED
    BY <2>1, <2>2, <2>3 DEF ReleaseEffect
<1>5. ASSUME worker[w].pc # "delUID", count' = count, leaked' = leaked,
             \E pc \in (InLoop \cup {"stop"}) \ {"delUID"} : Goto(w, pc)
      PROVE  ReleaseEffect(w)
  BY <1>1, <1>5 DEF ReleaseEffect, InHand
<1>6. CASE \/ stopGetUIDCount(w) \/ informersDelete(w) \/ listersDelete(w) \/ stoppersDelete(w)
  BY <1>5, <1>6 DEF stopGetUIDCount, informersDelete, listersDelete, stoppersDelete,
     InLoop, Closing, outerVars, miscVars, sharedVars, memoVars
<1>7. CASE stopInformer(w)
  <2>1. worker[w].pc = "close" /\ count' = count /\ leaked' = leaked
    BY <1>7 DEF stopInformer, memoVars
  <2>2. CASE Goto(w, "delInformer")
    BY <1>5, <2>1, <2>2 DEF InLoop, Closing
  <2>3. CASE worker' = worker
    BY <2>1, <2>3 DEF ReleaseEffect, InHand, Stopping, Busy, Deciding
  <2> QED
    BY <1>7, <2>2, <2>3 DEF stopInformer
<1>8. CASE stopGetRestMapper(w)
  <2>1. PICK m : worker' = [worker EXCEPT ![w].pc = "assign", ![w].snap = m]
    BY <1>8 DEF stopGetRestMapper
  <2>2. /\ worker'[w].pc = "assign" /\ worker'[w].todo = {} /\ worker[w].pc = "stop"
        /\ worker[w].todo = {} /\ count' = count /\ leaked' = leaked
    BY <1>0, <1>8, <2>1 DEF stopGetRestMapper, WorkerState, sharedVars, memoVars, outerVars, miscVars
  <2> QED
    BY <2>2 DEF ReleaseEffect, InHand
<1>9. CASE stopSetRestMapper(w)
  <2>1. /\ worker[w].pc = "assign" /\ worker[w].todo = {} /\ count' = count /\ leaked' = leaked
        /\ stopReturns(w)
    BY <1>9 DEF stopSetRestMapper, outerVars, miscVars, Control, ExclusiveOK
  <2> QED
    BY <1>2, <2>1 DEF ReleaseEffect, InHand
<1> QED
  BY <1>3, <1>4, <1>6, <1>7, <1>8, <1>9 DEF StopStep

(* stopInformers keeps RefsOK.                                             *)
LEMMA RefsStop ==
    ASSUME Inv, Control, Orderly, RefsOK, KindsOK, NEW w \in Workers, StopStep(w)
    PROVE  RefsOK'
<1> USE ConstantsAssumption
<1> DEFINE n == Of(w)
<1>0. TypeOK /\ WorkersOK /\ CountOK /\ HeldOK /\ DueOK /\ TrackedOK
  BY DEF Inv, RefsOK
<1>1. StopEffect(w) /\ StopMove(w) /\ ReleaseEffect(w)
  BY <1>0, WorkerStopEffect, StopReleases DEF StopEffect
<1>2. /\ UNCHANGED <<tracked, starter, abandoned>>
      /\ Busy(w) /\ Stopping(w) /\ worker[w].pc # "untrack"
      /\ \A v \in Workers \ {w} : worker'[v] = worker[v]
      /\ Busy(w)' => worker'[w].key = worker[w].key /\ worker'[w].gone = worker[w].gone
      /\ worker'[w].pc # "untrack"
  BY <1>1 DEF StopEffect, StopMove, Stopping, Busy
<1>3. WorkerOK(w) /\ n \in Works
  BY <1>2, BusyOf
<1>4. /\ Past(w)' <=> Past(w)
      /\ Stopping(w)' => Of(w)' = n
      /\ Past(w) => Stopping(w)' /\ Of(w)' = n
  BY <1>1, <1>2, <1>3, StopKeeps DEF Past, Stopping, Deciding, Busy, Of, StopMove, WorkerOK
<1>5. \A v \in Workers \ {w} : /\ Stopping(v)' <=> Stopping(v)
                               /\ Past(v)' <=> Past(v)
                               /\ Of(v)' = Of(v) /\ InHand(v)' = InHand(v)
                               /\ worker'[v] = worker[v]
  BY <1>2 DEF Stopping, Past, Busy, Deciding, Of, InHand
<1>6. \A k \in Kinds : count'[k] \subseteq count[k]
  BY <1>0, <1>1 DEF StopEffect
<1> HIDE DEF n
<1>7. CountOK'
  BY <1>0, <1>6, FS_Subset DEF CountOK
<1>8. HeldOK'
  <2>1. \A u \in UIDs : u \in count'[KindOf[u]] => u \in count[KindOf[u]]
    BY <1>6
  <2>2. leaked \subseteq leaked' /\ (Stopping(w)' => InHand(w)' \subseteq InHand(w))
    BY <1>1 DEF ReleaseEffect
  <2>3. \A v \in Workers : (Stopping(v) /\ ~worker[v].gone => InHand(v) \cap tracked[Of(v)] = {})'
    BY <1>0, <1>2, <1>4, <1>5, <2>2 DEF HeldOK, Stopping, n
  <2>4. ASSUME NEW u \in InHand(w), u \in count'[KindOf[u]]
        PROVE  u \in leaked' \/ (Stopping(w)' /\ u \in InHand(w)')
    BY <1>1, <2>4 DEF ReleaseEffect
  <2>5. ASSUME NEW m \in Works, NEW u \in MayList[m], u \in count'[KindOf[u]]
        PROVE  (\/ u \in leaked \/ u \in tracked[m]
                \/ \E v \in Workers : Stopping(v) /\ Of(v) = m /\ u \in InHand(v))'
    <3>1. \/ u \in leaked \/ u \in tracked[m]
          \/ \E v \in Workers : Stopping(v) /\ Of(v) = m /\ u \in InHand(v)
      BY <1>0, <2>1, <2>5 DEF HeldOK
    <3>2. CASE u \in leaked \/ u \in tracked[m]
      BY <1>2, <2>2, <3>2
    <3>3. CASE u \in InHand(w) /\ m = n
      BY <1>4, <2>4, <2>5, <3>3
    <3>4. CASE \E v \in Workers \ {w} : Stopping(v) /\ Of(v) = m /\ u \in InHand(v)
      BY <1>5, <3>4
    <3> QED
      BY <3>1, <3>2, <3>3, <3>4 DEF n
  <2>6. \A v \in Workers : (Past(v) =>
           \A u \in MayList[Of(v)] : u \in count[KindOf[u]] => u \in leaked \/ u \in InHand(v))'
    <3>1. ASSUME Past(w), NEW u \in MayList[n], u \in count'[KindOf[u]]
          PROVE  u \in leaked' \/ u \in InHand(w)'
      <4>1. u \in leaked \/ u \in InHand(w)
        BY <1>0, <1>3, <2>1, <3>1 DEF HeldOK, n
      <4> QED
        BY <2>2, <2>4, <3>1, <4>1
    <3>2. ASSUME NEW v \in Workers, v # w, Past(v), NEW u \in MayList[Of(v)], u \in count'[KindOf[u]]
          PROVE  u \in leaked' \/ u \in InHand(v)'
      <4>1. Of(v) \in Works
        BY <3>2, BusyOf DEF Past
      <4> QED
        BY <1>0, <1>5, <2>1, <2>2, <3>2, <4>1 DEF HeldOK
    <3> QED
      BY <1>4, <1>5, <3>1, <3>2
  <2> QED
    BY <2>3, <2>5, <2>6 DEF HeldOK
<1>9. DueOK'
  <2>1. ASSUME NEW m \in Works, NEW u \in tracked[m]
        PROVE  Counted(u)' \/ \E v \in Workers : Past(v)' /\ Of(v)' = m
    <3>0. u \in UIDs /\ KindOf[u] \in Kinds /\ u \in MayList[m]
      BY <1>0 DEF TypeOK, TrackedOK
    <3>1. CASE \E v \in Workers : Past(v) /\ Of(v) = m
      BY <1>4, <1>5, <3>1 DEF n
    <3>2. CASE Counted(u) /\ count' = count
      BY <1>2, <3>2 DEF Counted
    <3>3. CASE /\ Counted(u) /\ worker[w].pc = "delUID"
               /\ count' = [count EXCEPT ![KindOf[worker[w].cur]] = @ \ {worker[w].cur}]
      <4>1. CASE u # worker[w].cur
        BY <1>0, <1>2, <3>0, <3>3, <4>1 DEF Counted, TypeOK
      <4>2. CASE u = worker[w].cur
        <5>1. u \in InHand(w) /\ u \in MayList[n]
          BY <1>3, <3>0, <3>3, <4>2 DEF InHand, WorkerOK, n
        <5>2. m = n
          BY <1>3, <3>0, <5>1 DEF Orderly, Sole
        <5>3. worker[w].gone
          BY <1>0, <1>2, <2>1, <5>1, <5>2 DEF HeldOK, n
        <5>4. Past(w)
          BY <1>2, <5>3 DEF Past
        <5> QED
          BY <1>4, <5>2, <5>4
      <4> QED
        BY <4>1, <4>2
    <3> QED
      BY <1>0, <1>1, <3>1, <3>2, <3>3 DEF DueOK, ReleaseEffect
  <2>2. ASSUME NEW s \in Starters, NEW u \in starter[s].todo
        PROVE  (u \in count'[KindOf[u]] => u \in leaked') /\ \E m \in Works : u \in tracked[m]
    <3>1. u \in UIDs /\ KindOf[u] \in Kinds
      BY <1>0 DEF TypeOK, StarterState
    <3> QED
      BY <1>0, <1>1, <1>6, <2>2, <3>1 DEF DueOK, ReleaseEffect
  <2> QED
    BY <1>2, <2>1, <2>2 DEF DueOK
<1> QED
  BY <1>7, <1>8, <1>9 DEF RefsOK

(* A step of startInformers counts at most one of its objects.             *)
AddEffect(s) ==
    /\ leaked' = leaked
    /\ \/ count' = count
       \/ \E u \in starter[s].todo :
             count' = [count EXCEPT ![KindOf[u]] = @ \cup {u}] /\ u \notin starter'[s].todo

(* Every step of startInformers is an AddEffect.                           *)
LEMMA StartAdds ==
    ASSUME Inv, NEW s \in Starters, StarterStep(s)
    PROVE  AddEffect(s)
<1>0. starter[s] \in StarterState /\ starter \in [Starters -> StarterState]
  BY DEF Inv, TypeOK
<1>1. ASSUME NEW u \in starter[s].todo, startInformers(s, u)
      PROVE  AddEffect(s)
  <2>1. leaked' = leaked
    BY <1>1 DEF startInformers
  <2>2. \/ count' = count
        \/ /\ count' = AddUID(count, KindOf[u], u)
           /\ starter' = [starter EXCEPT ![s].pc = "count", ![s].cur = u, ![s].todo = @ \ {u}]
    BY <1>1 DEF startInformers
  <2> QED
    BY <1>0, <2>1, <2>2 DEF AddEffect, AddUID, StarterState
<1>2. CASE \/ startGetRestMapper(s) \/ startSetRestMapper(s) \/ startGetUIDCount(s)
           \/ informersSet(s) \/ listersSet(s) \/ stoppersSet(s) \/ startReturns(s)
  BY <1>2 DEF AddEffect, startGetRestMapper, startSetRestMapper, startGetUIDCount, informersSet,
     listersSet, stoppersSet, startReturns, outerVars, miscVars, sharedVars, memoVars
<1> QED
  BY <1>1, <1>2 DEF StarterStep

(* startInformers keeps RefsOK: what it counts is tracked.                 *)
LEMMA RefsStart ==
    ASSUME Inv, Control, Orderly, RefsOK, NEW s \in Starters, StarterStep(s)
    PROVE  RefsOK'
<1> USE ConstantsAssumption
<1>0. TypeOK /\ CountedOK /\ TrackedOK /\ CountOK /\ HeldOK /\ DueOK
  BY DEF Inv, RefsOK
<1>1. StartEffect(s) /\ AddEffect(s) /\ starter'[s].todo \subseteq starter[s].todo
  BY <1>0, StarterEffect, StartAdds, StartKeeps
<1>2. /\ UNCHANGED <<tracked, worker, leaked>>
      /\ \A t \in Starters \ {s} : starter'[t] = starter[t]
  BY <1>1 DEF StartEffect, AddEffect
<1>3. \A v \in Workers : /\ Stopping(v)' <=> Stopping(v)
                         /\ Past(v)' <=> Past(v)
                         /\ Of(v)' = Of(v) /\ InHand(v)' = InHand(v)
                         /\ worker'[v] = worker[v]
  BY <1>2 DEF Stopping, Past, Busy, Deciding, Of, InHand
<1>4. \A u \in UIDs : Counted(u) => Counted(u)'
  BY <1>0, <1>1, <1>2 DEF Counted, StartEffect, TypeOK
<1>5. \A t \in Starters : starter'[t].todo \subseteq starter[t].todo /\ starter[t].todo \subseteq UIDs
  BY <1>0, <1>1, <1>2 DEF TypeOK, StarterState
<1>6. \A m \in Works : tracked[m] \subseteq UIDs /\ tracked[m] \subseteq MayList[m]
  BY <1>0 DEF TypeOK, TrackedOK
<1>7. \A m \in Works : \A u \in tracked'[m] : Counted(u)' \/ \E w \in Workers : Past(w)' /\ Of(w)' = m
  BY <1>0, <1>2, <1>3, <1>4, <1>6 DEF DueOK
<1>8. CASE count' = count
  <2>1. CountOK' /\ HeldOK'
    BY <1>0, <1>2, <1>3, <1>8 DEF CountOK, HeldOK
  <2>2. DueOK'
    BY <1>0, <1>2, <1>5, <1>7, <1>8 DEF DueOK
  <2> QED
    BY <2>1, <2>2 DEF RefsOK
<1>9. ASSUME NEW u \in starter[s].todo, count' = [count EXCEPT ![KindOf[u]] = @ \cup {u}],
             u \notin starter'[s].todo
      PROVE  RefsOK'
  <2>1. /\ \A t \in Starters \ {s} : ~Adding(t)
        /\ \A w \in Workers : ~Past(w)
    BY <1>9, AddingAlone DEF Adding
  <2>2. PICK n \in Works : u \in tracked[n]
    BY <1>0, <1>9 DEF DueOK
  <2>3. u \in UIDs /\ KindOf[u] \in Kinds /\ u \in MayList[n]
    BY <1>5, <1>6, <1>9, <2>2
  <2>4. /\ count'[KindOf[u]] = count[KindOf[u]] \cup {u}
        /\ \A k \in Kinds \ {KindOf[u]} : count'[k] = count[k]
    BY <1>0, <1>9, <2>3 DEF TypeOK
  <2>5. CountOK'
    <3>1. IsFiniteSet(count[KindOf[u]])
      BY <1>0, <2>3 DEF CountOK
    <3>2. IsFiniteSet(count[KindOf[u]] \cup {u})
      BY <3>1, FS_AddElement
    <3>3. \A k \in Kinds : IsFiniteSet(count'[k])
      <4>1. \A k \in Kinds : IsFiniteSet(count[k])
        BY <1>0 DEF CountOK
      <4> QED
        BY <2>4, <3>2, <4>1, Zenon
    <3>4. \A k \in Kinds : \A x \in count'[k] : x \in count[k] \/ (x = u /\ k = KindOf[u])
      BY <2>4
    <3> QED
      BY <1>0, <2>3, <3>3, <3>4 DEF CountOK
  <2>6. \A x \in UIDs : x \in count'[KindOf[x]] => x = u \/ x \in count[KindOf[x]]
    BY <2>4
  <2>7. HeldOK'
    <3>1. ASSUME NEW m \in Works, NEW x \in MayList[m], x \in count'[KindOf[x]]
          PROVE  (\/ x \in leaked \/ x \in tracked[m]
                  \/ \E v \in Workers : Stopping(v) /\ Of(v) = m /\ x \in InHand(v))'
      <4>1. CASE x = u
        <5>1. m = n
          BY <2>3, <3>1, <4>1 DEF Orderly, Sole
        <5> QED
          BY <1>2, <2>2, <4>1, <5>1
      <4>2. CASE x \in count[KindOf[x]]
        BY <1>0, <1>2, <1>3, <3>1, <4>2 DEF HeldOK
      <4> QED
        BY <2>6, <3>1, <4>1, <4>2
    <3> QED
      BY <1>0, <1>2, <1>3, <2>1, <3>1 DEF HeldOK
  <2>8. DueOK'
    <3>1. ASSUME NEW t \in Starters, NEW x \in starter'[t].todo
          PROVE  (x \in count'[KindOf[x]] => x \in leaked') /\ \E m \in Works : x \in tracked'[m]
      <4>1. t = s /\ x # u /\ x \in starter[t].todo /\ x \in UIDs
        BY <1>2, <1>5, <1>9, <2>1, <3>1 DEF Adding
      <4> QED
        BY <1>0, <1>2, <2>6, <4>1 DEF DueOK
    <3> QED
      BY <1>7, <3>1 DEF DueOK
  <2> QED
    BY <2>5, <2>7, <2>8 DEF RefsOK
<1> QED
  BY <1>1, <1>8, <1>9 DEF AddEffect

(* Nothing is counted, tracked or under way at the start.                  *)
LEMMA EmptyRefs ==
    /\ Init => RefsOK /\ KindsOK
    /\ Restart => RefsOK' /\ KindsOK'
<1>1. ASSUME Init PROVE RefsOK /\ KindsOK
  <2>1. /\ \A w \in Workers : worker[w].pc = "idle"
        /\ \A s \in Starters : starter[s].pc = "idle" /\ starter[s].todo = {}
        /\ \A n \in Works : tracked[n] = {}
        /\ \A k \in Kinds : /\ count[k] = {} /\ informers[k] = 0 /\ listers[k] = 0
                            /\ stoppers[k] = 0 /\ running[k] = {}
    BY <1>1 DEF Init, IdleWorker, IdleStarter
  <2>2. CountOK
    BY <2>1, FS_EmptySet DEF CountOK
  <2>3. HeldOK
    <3>1. \A n \in Works : \A u \in MayList[n] : u \notin count[KindOf[u]]
      BY <2>1, ConstantsAssumption
    <3>2. \A w \in Workers : ~Stopping(w) /\ ~Past(w)
      BY <2>1 DEF Past, Stopping, Busy
    <3> QED
      BY <3>1, <3>2 DEF HeldOK
  <2>4. DueOK
    BY <2>1 DEF DueOK
  <2>5. KindsOK
    BY <2>1 DEF KindsOK, Steady, Down, Starting, InLoop, Closing
  <2> QED
    BY <2>2, <2>3, <2>4, <2>5 DEF RefsOK
<1>2. ASSUME Restart PROVE RefsOK' /\ KindsOK'
  <2>1. /\ \A w \in Workers : worker'[w].pc = "idle"
        /\ \A s \in Starters : starter'[s].pc = "idle" /\ starter'[s].todo = {}
        /\ \A n \in Works : tracked'[n] = {}
        /\ \A k \in Kinds : /\ count'[k] = {} /\ informers'[k] = 0 /\ listers'[k] = 0
                            /\ stoppers'[k] = 0 /\ running'[k] = {}
    BY <1>2 DEF Restart, IdleWorker, IdleStarter
  <2>2. CountOK'
    BY <2>1, FS_EmptySet DEF CountOK
  <2>3. HeldOK'
    <3>1. \A n \in Works : \A u \in MayList[n] : u \notin count'[KindOf[u]]
      BY <2>1, ConstantsAssumption
    <3>2. \A w \in Workers : ~Stopping(w)' /\ ~Past(w)'
      BY <2>1 DEF Past, Stopping, Busy
    <3> QED
      BY <3>1, <3>2 DEF HeldOK
  <2>4. DueOK'
    BY <2>1 DEF DueOK
  <2>5. KindsOK'
    BY <2>1 DEF KindsOK, Steady, Down, Starting, InLoop, Closing
  <2> QED
    BY <2>2, <2>3, <2>4, <2>5 DEF RefsOK
<1> QED
  BY <1>1, <1>2
-----------------------------------------------------------------------------
(* KindsOK is kept by every step.                                          *)

kindVars == <<count, informers, listers, stoppers, running>>

(* The maps of kind j stay as they are.                                    *)
SameMaps(j) ==
    /\ count'[j] = count[j] /\ informers'[j] = informers[j] /\ listers'[j] = listers[j]
    /\ stoppers'[j] = stoppers[j] /\ running'[j] = running[j]

(* A kind whose maps do not change stays up, down or steady.               *)
LEMMA SameMapsSteady ==
    ASSUME NEW j, SameMaps(j), abandoned \subseteq abandoned', leaked \subseteq leaked'
    PROVE  /\ Mapped(j)' => Mapped(j)
           /\ Up(j) => Up(j)'
           /\ Down(j) => Down(j)'
           /\ Steady(j) => Steady(j)'
<1>1. Mapped(j)' => Mapped(j)
  BY DEF Mapped
<1>2. (Up(j) => Up(j)') /\ (Down(j) => Down(j)')
  BY <1>1 DEF Up, Down, SameMaps
<1> QED
  BY <1>1, <1>2 DEF Steady, SameMaps

(* Steps outside the loop bodies that leave the maps alone.                *)
LEMMA KindsKept ==
    ASSUME KindsOK, UNCHANGED kindVars, abandoned \subseteq abandoned', leaked \subseteq leaked',
           \A s \in Starters : starter[s].pc \in Starting \/ starter'[s].pc \in Starting =>
               starter'[s] = starter[s],
           \A w \in Workers : worker[w].pc \in InLoop \/ worker'[w].pc \in InLoop =>
               worker'[w] = worker[w]
    PROVE  KindsOK'
<1>1. \A j : SameMaps(j)
  BY DEF SameMaps, kindVars
<1>2. \A j : /\ Mapped(j)' => Mapped(j)
             /\ Up(j) => Up(j)'
             /\ Steady(j) => Steady(j)'
  BY <1>1, SameMapsSteady
<1>3. ASSUME NEW s \in Starters, starter'[s].pc \in Starting PROVE StartKindOK(s)'
  <2>1. starter'[s] = starter[s] /\ StartKindOK(s)
    BY <1>3 DEF KindsOK
  <2> QED
    BY <1>2, <2>1 DEF StartKindOK, kindVars
<1>4. ASSUME NEW w \in Workers, worker'[w].pc \in InLoop PROVE StopKindOK(w)'
  <2>1. worker'[w] = worker[w] /\ StopKindOK(w)
    BY <1>4 DEF KindsOK
  <2> QED
    BY <1>2, <2>1 DEF StopKindOK, kindVars
<1>5. ASSUME NEW k \in Kinds
      PROVE  \/ \E s \in Starters : StarterAt(s, k)'
             \/ \E w \in Workers : WorkerAt(w, k)'
             \/ Steady(k)'
  <2>1. \A s \in Starters : StarterAt(s, k) => StarterAt(s, k)'
    BY DEF StarterAt
  <2>2. \A w \in Workers : WorkerAt(w, k) => WorkerAt(w, k)'
    BY DEF WorkerAt
  <2> QED
    BY <1>2, <2>1, <2>2 DEF KindsOK
<1> QED
  BY <1>3, <1>4, <1>5 DEF KindsOK

(* A step of the one goroutine that adds, on the maps of kind k.           *)
LEMMA KindsByStarter ==
    ASSUME Inv, Control, KindsOK, NEW s \in Starters, Adding(s), NEW k \in Kinds,
           UNCHANGED <<worker, leaked>>, abandoned \subseteq abandoned',
           \A t \in Starters \ {s} : starter'[t] = starter[t],
           \A j \in Kinds \ {k} : SameMaps(j),
           starter[s].pc \in Starting => KindOf[starter[s].cur] = k,
           starter'[s].pc \in Starting => KindOf[starter'[s].cur] = k /\ StartKindOK(s)',
           starter'[s].pc \notin Starting => Steady(k)'
    PROVE  KindsOK'
<1>1. /\ \A t \in Starters \ {s} : starter[t].pc \notin Starting /\ starter'[t].pc \notin Starting
      /\ \A w \in Workers : worker[w].pc \notin InLoop /\ worker'[w].pc \notin InLoop
  BY AddingAlone DEF Adding
<1>2. ASSUME NEW j \in Kinds
      PROVE  (\E t \in Starters : StarterAt(t, j)') \/ Steady(j)'
  <2>1. CASE j = k
    BY <2>1 DEF StarterAt
  <2>2. CASE j # k
    <3>1. Steady(j)
      BY <1>1, <2>2 DEF KindsOK, StarterAt, WorkerAt
    <3> QED
      BY <2>2, <3>1, SameMapsSteady
  <2> QED
    BY <2>1, <2>2
<1> QED
  BY <1>1, <1>2 DEF KindsOK

(* A step of the one worker that removes, on the maps of kind k.           *)
LEMMA KindsByWorker ==
    ASSUME Inv, Control, KindsOK, NEW w \in Workers, Removing(w), NEW k \in Kinds,
           UNCHANGED <<starter, abandoned, leaked>>,
           \A v \in Workers \ {w} : worker'[v] = worker[v],
           \A j \in Kinds \ {k} : SameMaps(j),
           worker[w].pc \in InLoop => KindOf[worker[w].cur] = k,
           worker'[w].pc \in InLoop => KindOf[worker'[w].cur] = k /\ StopKindOK(w)',
           worker'[w].pc \notin InLoop => Steady(k)'
    PROVE  KindsOK'
<1>1. /\ \A v \in Workers \ {w} : worker[v].pc \notin InLoop /\ worker'[v].pc \notin InLoop
      /\ \A s \in Starters : starter[s].pc \notin Starting /\ starter'[s].pc \notin Starting
  BY RemovingAlone
<1>2. ASSUME NEW j \in Kinds
      PROVE  (\E v \in Workers : WorkerAt(v, j)') \/ Steady(j)'
  <2>1. CASE j = k
    BY <2>1 DEF WorkerAt
  <2>2. CASE j # k
    <3>1. Steady(j)
      BY <1>1, <2>2 DEF KindsOK, StarterAt, WorkerAt
    <3> QED
      BY <2>2, <3>1, SameMapsSteady
  <2> QED
    BY <2>1, <2>2
<1> QED
  BY <1>1, <1>2 DEF KindsOK

(* Steps of the cluster and the queue, and what a worker does before it    *)
(* stops informers, leave the maps of all kinds alone.                     *)
LEMMA KindsOutside ==
    ASSUME Inv, Control, KindsOK,
           \/ Environment \/ (\E n \in Works : enqueueObject(n))
           \/ (\E k \in waiting : AddRateLimitedFires(k))
           \/ \E w \in Workers : \/ \E k \in dirty : reconcile(w, k)
                                 \/ trackedGet(w) \/ trackedGetGone(w) \/ trackedDelete(w)
                                 \/ \E s \in Starters : trackedSet(w, s)
    PROVE  KindsOK' /\ fault' = fault
<1>0. worker \in [Workers -> WorkerState] /\ starter \in [Starters -> StarterState]
  BY DEF Inv, TypeOK
<1>1. CASE \/ Environment \/ (\E n \in Works : enqueueObject(n))
           \/ (\E k \in waiting : AddRateLimitedFires(k))
  <2>1. UNCHANGED <<kindVars, worker, starter, abandoned, leaked, fault>>
    BY <1>1 DEF Environment, ApplyWork, DeleteWork, ChangeCRD, enqueueObject, AddRateLimitedFires,
       outerVars, miscVars, sharedVars, mapVars, memoVars, kindVars
  <2> QED
    BY <2>1, KindsKept
<1>2. ASSUME NEW w \in Workers, NEW k \in dirty, reconcile(w, k)
      PROVE  KindsOK' /\ fault' = fault
  <2> DEFINE live == [IdleWorker EXCEPT !.pc = "get", !.key = k, !.info = applied[k[1]]]
             gone == [IdleWorker EXCEPT !.pc = "untrack", !.key = k, !.gone = TRUE]
  <2>1. live.pc \notin InLoop /\ gone.pc \notin InLoop
    BY DEF IdleWorker, InLoop, Closing
  <2> HIDE DEF live, gone
  <2>2. /\ UNCHANGED <<kindVars, starter, abandoned, leaked, fault>>
        /\ worker[w].pc \notin InLoop
        /\ \/ worker' = worker
           \/ worker' = [worker EXCEPT ![w] = live]
           \/ worker' = [worker EXCEPT ![w] = gone]
    BY <1>2 DEF reconcile, live, gone, outerVars, miscVars, sharedVars, mapVars, memoVars, kindVars,
       InLoop, Closing
  <2>3. \A v \in Workers : worker[v].pc \in InLoop \/ worker'[v].pc \in InLoop => worker'[v] = worker[v]
    BY <1>0, <2>1, <2>2
  <2> QED
    BY <2>2, <2>3, KindsKept
<1>3. ASSUME NEW w \in Workers, trackedGet(w)
      PROVE  KindsOK' /\ fault' = fault
  <2>1. UNCHANGED <<kindVars, starter, abandoned, leaked, fault>> /\ worker[w].pc \notin InLoop
    BY <1>3 DEF trackedGet, outerVars, miscVars, sharedVars, mapVars, memoVars, kindVars, InLoop, Closing
  <2>2. \/ worker' = [worker EXCEPT ![w] = IdleWorker]
        \/ worker' = [worker EXCEPT ![w].pc = "set", ![w].todo = tracked[worker[w].key[1]]]
    BY <1>3 DEF trackedGet, Done
  <2>3. worker'[w].pc \in {"idle", "set"} /\ \A v \in Workers \ {w} : worker'[v] = worker[v]
    BY <1>0, <2>2 DEF IdleWorker, WorkerState
  <2>4. \A v \in Workers : worker[v].pc \in InLoop \/ worker'[v].pc \in InLoop => worker'[v] = worker[v]
    BY <2>1, <2>3 DEF InLoop, Closing
  <2> QED
    BY <2>1, <2>4, KindsKept
<1>4. ASSUME NEW w \in Workers, trackedGetGone(w) \/ trackedDelete(w)
      PROVE  KindsOK' /\ fault' = fault
  <2>1. GoneEffect(w)
    BY <1>4, TrackedGoneEffect
  <2>2. \A v \in Workers : worker[v].pc \in InLoop \/ worker'[v].pc \in InLoop => worker'[v] = worker[v]
    BY <2>1 DEF GoneEffect, InLoop, Closing
  <2>3. UNCHANGED <<kindVars, starter, abandoned, leaked, fault>>
    BY <2>1 DEF GoneEffect, kindVars
  <2> QED
    BY <2>2, <2>3, KindsKept
<1>5. ASSUME NEW w \in Workers, NEW s \in Starters, trackedSet(w, s)
      PROVE  KindsOK' /\ fault' = fault
  <2>1. SetEffect(w, s)
    BY <1>5, TrackedSetEffect
  <2>2. \A v \in Workers : worker[v].pc \in InLoop \/ worker'[v].pc \in InLoop => worker'[v] = worker[v]
    BY <2>1 DEF SetEffect, Deciding, InLoop, Closing
  <2>3. \A t \in Starters : starter[t].pc \in Starting \/ starter'[t].pc \in Starting =>
            starter'[t] = starter[t]
    BY <2>1 DEF SetEffect, Starting
  <2>4. UNCHANGED <<kindVars, abandoned, leaked, fault>>
    BY <2>1 DEF SetEffect, kindVars
  <2> QED
    BY <2>2, <2>3, <2>4, KindsKept
<1> QED
  BY <1>1, <1>2, <1>3, <1>4, <1>5

(* startInformers keeps KindsOK: only the first object of a kind starts an *)
(* informer, and at that time none runs.                                   *)
LEMMA KindsStart ==
    ASSUME Inv, Control, RefsOK, KindsOK, NEW s \in Starters, StarterStep(s)
    PROVE  KindsOK' /\ (fault' = fault \/ fault' = "nilMapper")
<1> USE ConstantsAssumption
<1>0. /\ TypeOK /\ CountOK /\ DueOK
      /\ starter[s] \in StarterState /\ starter \in [Starters -> StarterState]
  BY DEF Inv, RefsOK, TypeOK
<1>1. CASE startGetRestMapper(s) \/ startSetRestMapper(s) \/ startReturns(s)
  <2>1. UNCHANGED <<kindVars, worker, abandoned, leaked, fault>> /\ starter[s].pc \notin Starting
    BY <1>1 DEF startGetRestMapper, startSetRestMapper, startReturns, outerVars, miscVars, sharedVars,
       mapVars, memoVars, kindVars, Starting
  <2>2. starter'[s].pc \notin Starting /\ \A t \in Starters \ {s} : starter'[t] = starter[t]
    BY <1>0, <1>1 DEF startGetRestMapper, startSetRestMapper, startReturns, IdleStarter, StarterState,
       Starting
  <2> QED
    BY <2>1, <2>2, KindsKept
<1>2. ASSUME NEW x \in starter[s].todo, startInformers(s, x)
      PROVE  KindsOK' /\ (fault' = fault \/ fault' = "nilMapper")
  <2> DEFINE j == KindOf[x]
  <2>1. /\ UNCHANGED <<informers, listers, stoppers, running, worker, leaked>>
        /\ starter[s].pc = "loop" /\ starter[s].pc \notin Starting
        /\ fault' = fault \/ fault' = "nilMapper"
    BY <1>2 DEF startInformers, mapVars, Panic, Starting
  <2>2. x \in UIDs /\ j \in Kinds /\ Adding(s)
    BY <1>0, <1>2 DEF StarterState, Adding
  <2>3. ASSUME count' = count, abandoned \subseteq abandoned',
               \/ starter' = starter
               \/ starter' = [starter EXCEPT ![s] = IdleStarter]
               \/ starter' = [starter EXCEPT ![s].todo = @ \ {x}]
        PROVE  KindsOK'
    <3>1. starter'[s].pc \notin Starting /\ \A t \in Starters \ {s} : starter'[t] = starter[t]
      BY <1>0, <2>1, <2>3 DEF IdleStarter, StarterState, Starting
    <3> QED
      BY <2>1, <2>3, <3>1, KindsKept DEF kindVars
  <2>4. ASSUME count' = AddUID(count, j, x), abandoned' = abandoned,
               starter' = [starter EXCEPT ![s].pc = "count", ![s].cur = x, ![s].todo = @ \ {x}]
        PROVE  KindsOK'
    <3>1. /\ starter'[s].pc = "count" /\ starter'[s].cur = x
          /\ \A t \in Starters \ {s} : starter'[t] = starter[t]
      BY <1>0, <2>4 DEF StarterState
    <3> HIDE DEF j
    <3>2. /\ count'[j] = count[j] \cup {x}
          /\ \A i \in Kinds \ {j} : SameMaps(i)
      BY <1>0, <2>1, <2>2, <2>4 DEF AddUID, SameMaps, TypeOK
    <3>3. Steady(j)
      <4>1. \A t \in Starters : starter[t].pc \notin Starting
        BY <2>1, <2>2, AddingAlone DEF Adding
      <4>2. \A w \in Workers : worker[w].pc \notin InLoop
        BY <2>2, AddingAlone
      <4> QED
        BY <2>2, <4>1, <4>2 DEF KindsOK, StarterAt, WorkerAt
    <3>4. x \in count[j] => ~Mapped(j)
      BY <1>0, <1>2 DEF DueOK, Mapped, j
    <3>5. /\ Mapped(j)' <=> Mapped(j)
          /\ Up(j)' <=> Up(j)
      BY <2>1, <2>4 DEF Mapped, Up
    <3>6. IF count'[j] = {x} THEN Mapped(j)' => running'[j] = {} ELSE Up(j)'
      <4>1. CASE count[j] = {}
        BY <2>1, <3>2, <3>3, <3>5, <4>1 DEF Steady, Down
      <4>2. CASE count[j] # {}
        <5>1. Up(j)
          BY <3>3, <4>2 DEF Steady
        <5>2. count'[j] = {x} => x \in count[j]
          BY <3>2, <4>2
        <5> QED
          BY <3>4, <3>5, <5>1, <5>2
      <4> QED
        BY <4>1, <4>2
    <3>7. StartKindOK(s)' /\ KindOf[starter'[s].cur] = j
      BY <2>2, <3>1, <3>2, <3>6 DEF StartKindOK, j
    <3>8. starter'[s].pc \in Starting
      BY <3>1 DEF Starting
    <3> QED
      BY <2>1, <2>2, <2>4, <3>1, <3>2, <3>7, <3>8, KindsByStarter
  <2> QED
    BY <1>2, <2>1, <2>3, <2>4 DEF startInformers
<1> PICK u, k : u = starter[s].cur /\ k = KindOf[u]
  OBVIOUS
<1>3. ASSUME starter[s].pc \in Starting
      PROVE  u \in UIDs /\ k \in Kinds /\ u \in count[k] /\ StartKindOK(s) /\ Adding(s)
  BY <1>3 DEF KindsOK, StartKindOK, Adding
<1>4. CASE startGetUIDCount(s)
  <2>1. /\ UNCHANGED <<kindVars, worker, abandoned, leaked, fault>> /\ starter[s].pc = "count"
        /\ starter[s].pc \in Starting
    BY <1>4 DEF startGetUIDCount, outerVars, miscVars, mapVars, memoVars, kindVars, Starting
  <2>2. IsFirst(k) <=> count[k] = {u}
    <3>1. IsFiniteSet(count[k]) /\ u \in count[k]
      BY <1>0, <1>3, <2>1 DEF CountOK
    <3> QED
      BY <3>1, FS_Singleton DEF IsFirst, GetUIDCount
  <2>3. \/ /\ count[k] = {u} /\ born + 1 # 0
           /\ starter'[s].pc = "setInformer" /\ starter'[s].cur = u /\ starter'[s].id = born + 1
        \/ count[k] # {u} /\ starter'[s].pc = "loop"
    <3>1. born + 1 # 0
      BY <1>0 DEF TypeOK
    <3>2. \/ /\ count[k] = {u}
             /\ starter' = [starter EXCEPT ![s].pc = "setInformer", ![s].id = born + 1]
          \/ count[k] # {u} /\ starter' = [starter EXCEPT ![s].pc = "loop"]
      BY <1>4, <2>2 DEF startGetUIDCount
    <3> QED
      BY <1>0, <3>1, <3>2 DEF StarterState
  <2>4. \A t \in Starters \ {s} : starter'[t] = starter[t]
    <3>1. \/ starter' = [starter EXCEPT ![s].pc = "setInformer", ![s].id = born + 1]
          \/ starter' = [starter EXCEPT ![s].pc = "loop"]
      BY <1>4 DEF startGetUIDCount
    <3> QED
      BY <1>0, <3>1
  <2>5. /\ \A i \in Kinds : SameMaps(i)
        /\ Mapped(k)' <=> Mapped(k)
        /\ Up(k)' <=> Up(k)
    BY <2>1 DEF SameMaps, kindVars, Mapped, Up
  <2>6. /\ count[k] = {u} => (Mapped(k) => running[k] = {})
        /\ count[k] # {u} => Up(k)
    BY <1>3, <2>1 DEF StartKindOK
  <2>7. starter'[s].pc \in Starting => KindOf[starter'[s].cur] = k /\ StartKindOK(s)'
    <3>1. CASE starter'[s].pc = "loop"
      BY <3>1 DEF Starting
    <3>2. CASE starter'[s].pc = "setInformer"
      BY <1>3, <2>1, <2>3, <2>5, <2>6, <3>2 DEF StartKindOK, kindVars
    <3> QED
      BY <2>3, <3>1, <3>2
  <2>8. starter'[s].pc \notin Starting => Steady(k)'
    BY <1>3, <2>1, <2>3, <2>5, <2>6 DEF Steady, Starting, kindVars
  <2> QED
    BY <1>3, <2>1, <2>4, <2>5, <2>7, <2>8, KindsByStarter
<1>5. CASE informersSet(s)
  <2>1. /\ UNCHANGED <<count, listers, stoppers, running, worker, abandoned, leaked, fault>>
        /\ starter[s].pc = "setInformer" /\ starter[s].pc \in Starting
        /\ informers' = [informers EXCEPT ![k] = starter[s].id]
    BY <1>5 DEF informersSet, Set, outerVars, miscVars, memoVars, Starting
  <2>2. /\ starter'[s].pc = "setLister" /\ starter'[s].cur = u /\ starter'[s].id = starter[s].id
        /\ \A t \in Starters \ {s} : starter'[t] = starter[t]
    BY <1>0, <1>5 DEF informersSet, StarterState
  <2>3. informers'[k] = starter[s].id /\ \A i \in Kinds \ {k} : SameMaps(i)
    BY <1>0, <1>3, <2>1 DEF SameMaps, TypeOK
  <2>4. KindOf[starter'[s].cur] = k /\ StartKindOK(s)' /\ starter'[s].pc \in Starting
    BY <1>3, <2>1, <2>2, <2>3 DEF StartKindOK, Mapped, Starting
  <2> QED
    BY <1>3, <2>1, <2>2, <2>3, <2>4, KindsByStarter
<1>6. CASE listersSet(s)
  <2>1. /\ UNCHANGED <<count, informers, stoppers, running, worker, abandoned, leaked, fault>>
        /\ starter[s].pc = "setLister" /\ starter[s].pc \in Starting
        /\ listers' = [listers EXCEPT ![k] = starter[s].id]
    BY <1>6 DEF listersSet, Set, outerVars, miscVars, memoVars, Starting
  <2>2. /\ starter'[s].pc = "setStopper" /\ starter'[s].cur = u /\ starter'[s].id = starter[s].id
        /\ \A t \in Starters \ {s} : starter'[t] = starter[t]
    BY <1>0, <1>6 DEF listersSet, StarterState
  <2>3. listers'[k] = starter[s].id /\ \A i \in Kinds \ {k} : SameMaps(i)
    BY <1>0, <1>3, <2>1 DEF SameMaps, TypeOK
  <2>4. KindOf[starter'[s].cur] = k /\ StartKindOK(s)' /\ starter'[s].pc \in Starting
    BY <1>3, <2>1, <2>2, <2>3 DEF StartKindOK, Mapped, Starting
  <2> QED
    BY <1>3, <2>1, <2>2, <2>3, <2>4, KindsByStarter
<1>7. CASE stoppersSet(s)
  <2>1. /\ UNCHANGED <<count, informers, listers, worker, abandoned, leaked, fault>>
        /\ starter[s].pc = "setStopper" /\ starter[s].pc \in Starting
        /\ stoppers' = [stoppers EXCEPT ![k] = starter[s].id]
        /\ running' = [running EXCEPT ![k] = @ \cup {starter[s].id}]
    BY <1>7 DEF stoppersSet, Set, outerVars, miscVars, memoVars, Starting
  <2>2. starter'[s].pc = "loop" /\ \A t \in Starters \ {s} : starter'[t] = starter[t]
    BY <1>0, <1>7 DEF stoppersSet, StarterState
  <2>3. /\ stoppers'[k] = starter[s].id /\ running'[k] = running[k] \cup {starter[s].id}
        /\ \A i \in Kinds \ {k} : SameMaps(i)
    BY <1>0, <1>3, <2>1 DEF SameMaps, TypeOK
  <2>4. starter'[s].pc \notin Starting
    BY <2>2 DEF Starting
  <2>5. Steady(k)'
    <3>1. /\ informers[k] = starter[s].id /\ listers[k] = starter[s].id /\ starter[s].id # 0
          /\ u \in count[k] /\ (Mapped(k) => running[k] = {})
      BY <1>3, <2>1 DEF StartKindOK
    <3>2. Up(k)'
      BY <2>1, <2>3, <3>1 DEF Up, Mapped
    <3> QED
      BY <2>1, <3>1, <3>2 DEF Steady
  <2> QED
    BY <1>3, <2>1, <2>2, <2>3, <2>4, <2>5, KindsByStarter
<1> QED
  BY <1>1, <1>2, <1>4, <1>5, <1>6, <1>7 DEF StarterStep

(* stopInformers keeps KindsOK: the informer of a kind is stopped only     *)
(* when no object of the kind is counted, and its stopper is found open.   *)
LEMMA KindsStop ==
    ASSUME Inv, Control, RefsOK, KindsOK, NEW w \in Workers, StopStep(w)
    PROVE  KindsOK' /\ (fault' = fault \/ fault' = "nilMapper")
<1> USE ConstantsAssumption
<1>0. /\ TypeOK /\ WorkersOK /\ CountOK
      /\ worker[w] \in WorkerState /\ worker \in [Workers -> WorkerState]
  BY DEF Inv, RefsOK, TypeOK
<1>1. ASSUME UNCHANGED <<kindVars, starter, abandoned>>, leaked \subseteq leaked',
             worker[w].pc \notin InLoop, worker'[w].pc \notin InLoop
      PROVE  KindsOK'
  <2>1. \A v \in Workers \ {w} : worker'[v] = worker[v]
    BY <1>0, WorkerStopEffect DEF StopEffect, StopMove
  <2> QED
    BY <1>1, <2>1, KindsKept
<1>2. ASSUME stopReturns(w) PROVE worker'[w].pc \in {"idle", "forget"}
  <2>1. \/ worker' = [worker EXCEPT ![w] = IdleWorker]
        \/ worker' = [worker EXCEPT ![w].pc = "forget", ![w].todo = {}]
    BY <1>2 DEF stopReturns, Done
  <2> QED
    BY <1>0, <2>1 DEF IdleWorker, WorkerState
<1>3. CASE stopGetRestMapper(w) \/ stopSetRestMapper(w)
  <2>1. /\ UNCHANGED <<kindVars, starter, abandoned, leaked, fault>>
        /\ worker[w].pc \in {"stop", "assign"}
    BY <1>3 DEF stopGetRestMapper, stopSetRestMapper, outerVars, miscVars, sharedVars, mapVars,
       memoVars, kindVars
  <2>2. worker'[w].pc \in {"assign", "idle", "forget"}
    <3>1. CASE stopGetRestMapper(w)
      BY <1>0, <3>1 DEF stopGetRestMapper, WorkerState
    <3>2. CASE stopSetRestMapper(w)
      BY <1>2, <3>2 DEF stopSetRestMapper
    <3> QED
      BY <1>3, <3>1, <3>2
  <2> QED
    BY <1>1, <2>1, <2>2 DEF InLoop, Closing
<1>4. ASSUME NEW u \in worker[w].todo, stopInformers(w, u)
      PROVE  KindsOK' /\ (fault' = fault \/ fault' = "nilMapper")
  <2> DEFINE j == KindOf[u]
  <2>1. /\ UNCHANGED <<kindVars, starter, abandoned>>
        /\ worker[w].pc = "stop" /\ worker[w].pc \notin InLoop
        /\ fault' = fault \/ fault' = "nilMapper"
    BY <1>4 DEF stopInformers, sharedVars, mapVars, memoVars, kindVars, Panic, InLoop, Closing
  <2>2. u \in UIDs /\ j \in Kinds
    BY <1>0 DEF WorkerState
  <2>3. CASE worker' = worker /\ leaked' = leaked
    BY <1>1, <2>1, <2>3
  <2>4. CASE stopReturns(w) /\ leaked' = leaked \cup worker[w].todo
    BY <1>1, <1>2, <2>1, <2>4 DEF InLoop, Closing
  <2>5. CASE worker' = [worker EXCEPT ![w].todo = @ \ {u}] /\ leaked' = leaked
    <3>1. worker'[w].pc = "stop"
      BY <1>0, <2>1, <2>5 DEF WorkerState
    <3> QED
      BY <1>1, <2>1, <2>5, <3>1
  <2>6. CASE /\ informers[j] # 0 /\ leaked' = leaked
             /\ worker' = [worker EXCEPT ![w].pc = "delUID", ![w].cur = u, ![w].todo = @ \ {u}]
    <3>1. /\ worker'[w].pc = "delUID" /\ worker'[w].cur = u
          /\ \A v \in Workers \ {w} : worker'[v] = worker[v]
      BY <1>0, <2>6 DEF WorkerState
    <3>2. Removing(w) /\ Steady(j)
      BY <2>1, <2>2, StopSteady
    <3>3. Up(j)
      BY <2>6, <3>2 DEF Steady, Down
    <3>4. Up(j)' /\ \A i \in Kinds : SameMaps(i)
      BY <2>1, <2>6, <3>3 DEF SameMaps, kindVars, Up, Mapped
    <3>5. KindOf[worker'[w].cur] = j /\ StopKindOK(w)' /\ worker'[w].pc \in InLoop
      BY <3>1, <3>4 DEF StopKindOK, InLoop, Closing
    <3> QED
      BY <2>1, <2>2, <2>6, <3>1, <3>2, <3>4, <3>5, KindsByWorker
  <2> QED
    BY <1>4, <2>1, <2>3, <2>4, <2>5, <2>6 DEF stopInformers
<1> PICK u, k : u = worker[w].cur /\ k = KindOf[u]
  OBVIOUS
<1>5. ASSUME worker[w].pc \in InLoop
      PROVE  u \in UIDs /\ k \in Kinds /\ StopKindOK(w) /\ Removing(w)
  BY <1>0, <1>5 DEF KindsOK, Removing, Stopping, Busy, Deciding, WorkersOK, WorkerOK, InLoop, Closing
<1>6. ASSUME NEW pc, Goto(w, pc)
      PROVE  /\ worker'[w].pc = pc /\ worker'[w].cur = u
             /\ \A v \in Workers \ {w} : worker'[v] = worker[v]
  BY <1>0, <1>6 DEF Goto, WorkerState
<1>7. CASE stopDeleteUID(w)
  <2>1. /\ UNCHANGED <<informers, listers, stoppers, running, starter, abandoned, leaked, fault>>
        /\ worker[w].pc = "delUID" /\ worker[w].pc \in InLoop /\ Goto(w, "count")
        /\ count' = [count EXCEPT ![k] = @ \ {u}]
    BY <1>7 DEF stopDeleteUID, DeleteUID, outerVars, miscVars, mapVars, InLoop
  <2>2. \A i \in Kinds \ {k} : SameMaps(i)
    BY <1>0, <1>5, <2>1 DEF SameMaps, TypeOK
  <2>3. Up(k)'
    BY <1>5, <2>1 DEF StopKindOK, Up, Mapped
  <2>4. KindOf[worker'[w].cur] = k /\ StopKindOK(w)' /\ worker'[w].pc \in InLoop
    BY <1>6, <2>1, <2>3 DEF StopKindOK, InLoop, Closing
  <2> QED
    BY <1>5, <1>6, <2>1, <2>2, <2>4, KindsByWorker
<1>8. CASE stopGetUIDCount(w)
  <2>1. /\ UNCHANGED <<kindVars, starter, abandoned, leaked, fault>>
        /\ worker[w].pc = "count" /\ worker[w].pc \in InLoop
        /\ Goto(w, IF NoneLeft(k) THEN "close" ELSE "stop")
    BY <1>8 DEF stopGetUIDCount, outerVars, miscVars, sharedVars, mapVars, memoVars, kindVars, InLoop
  <2>2. NoneLeft(k) <=> count[k] = {}
    <3>1. IsFiniteSet(count[k])
      BY <1>0, <1>5, <2>1 DEF CountOK
    <3> QED
      BY <3>1, FS_EmptySet DEF NoneLeft, GetUIDCount
  <2>3. Up(k)' /\ \A i \in Kinds : SameMaps(i)
    BY <1>5, <2>1 DEF StopKindOK, Up, Mapped, SameMaps, kindVars
  <2>4. CASE count[k] = {}
    <3>1. KindOf[worker'[w].cur] = k /\ StopKindOK(w)' /\ worker'[w].pc \in InLoop
      BY <1>6, <2>1, <2>2, <2>3, <2>4 DEF StopKindOK, InLoop, Closing, kindVars
    <3> QED
      BY <1>5, <1>6, <2>1, <2>3, <3>1, KindsByWorker
  <2>5. CASE count[k] # {}
    <3>1. worker'[w].pc \notin InLoop
      BY <1>6, <2>1, <2>2, <2>5 DEF InLoop, Closing
    <3>2. Steady(k)'
      BY <2>1, <2>3, <2>5 DEF Steady, kindVars
    <3> QED
      BY <1>5, <1>6, <2>1, <2>3, <3>1, <3>2, KindsByWorker
  <2> QED
    BY <2>4, <2>5
<1>9. CASE stopInformer(w)
  <2>1. /\ UNCHANGED <<count, informers, listers, stoppers, starter, abandoned, leaked>>
        /\ worker[w].pc = "close" /\ worker[w].pc \in InLoop
    BY <1>9 DEF stopInformer, memoVars, InLoop
  <2>2. Up(k) /\ count[k] = {}
    BY <1>5, <2>1 DEF StopKindOK
  <2>3. /\ running' = [running EXCEPT ![k] = @ \ {stoppers[k]}]
        /\ Goto(w, "delInformer") /\ fault' = fault
    BY <1>9, <2>2 DEF stopInformer, Up
  <2>4. /\ running'[k] = running[k] \ {stoppers[k]}
        /\ \A i \in Kinds \ {k} : SameMaps(i)
    BY <1>0, <1>5, <2>1, <2>3 DEF SameMaps, TypeOK
  <2>5. Mapped(k)' => running'[k] = {}
    BY <2>1, <2>2, <2>4 DEF Up, Mapped
  <2>6. KindOf[worker'[w].cur] = k /\ StopKindOK(w)' /\ worker'[w].pc \in InLoop
    BY <1>6, <2>1, <2>2, <2>3, <2>5 DEF StopKindOK, InLoop, Closing
  <2> QED
    BY <1>5, <1>6, <2>1, <2>3, <2>4, <2>6, KindsByWorker
<1>10. CASE informersDelete(w)
  <2>1. /\ UNCHANGED <<count, listers, stoppers, running, starter, abandoned, leaked, fault>>
        /\ worker[w].pc = "delInformer" /\ worker[w].pc \in InLoop /\ worker[w].pc \in Closing
        /\ informers' = [informers EXCEPT ![k] = 0] /\ Goto(w, "delLister")
    BY <1>10 DEF informersDelete, Delete, outerVars, miscVars, memoVars, InLoop, Closing
  <2>2. informers'[k] = 0 /\ \A i \in Kinds \ {k} : SameMaps(i)
    BY <1>0, <1>5, <2>1 DEF SameMaps, TypeOK
  <2>3. count[k] = {} /\ (Mapped(k) => running[k] = {})
    BY <1>5, <2>1 DEF StopKindOK
  <2>4. KindOf[worker'[w].cur] = k /\ StopKindOK(w)' /\ worker'[w].pc \in InLoop
    BY <1>6, <2>1, <2>2, <2>3 DEF StopKindOK, Mapped, InLoop, Closing
  <2> QED
    BY <1>5, <1>6, <2>1, <2>2, <2>4, KindsByWorker
<1>11. CASE listersDelete(w)
  <2>1. /\ UNCHANGED <<count, informers, stoppers, running, starter, abandoned, leaked, fault>>
        /\ worker[w].pc = "delLister" /\ worker[w].pc \in InLoop /\ worker[w].pc \in Closing
        /\ listers' = [listers EXCEPT ![k] = 0] /\ Goto(w, "delStopper")
    BY <1>11 DEF listersDelete, Delete, outerVars, miscVars, memoVars, InLoop, Closing
  <2>2. listers'[k] = 0 /\ \A i \in Kinds \ {k} : SameMaps(i)
    BY <1>0, <1>5, <2>1 DEF SameMaps, TypeOK
  <2>3. count[k] = {} /\ (Mapped(k) => running[k] = {}) /\ informers[k] = 0
    BY <1>5, <2>1 DEF StopKindOK
  <2>4. KindOf[worker'[w].cur] = k /\ StopKindOK(w)' /\ worker'[w].pc \in InLoop
    BY <1>6, <2>1, <2>2, <2>3 DEF StopKindOK, Mapped, InLoop, Closing
  <2> QED
    BY <1>5, <1>6, <2>1, <2>2, <2>4, KindsByWorker
<1>12. CASE stoppersDelete(w)
  <2>1. /\ UNCHANGED <<count, informers, listers, running, starter, abandoned, leaked, fault>>
        /\ worker[w].pc = "delStopper" /\ worker[w].pc \in InLoop /\ worker[w].pc \in Closing
        /\ stoppers' = [stoppers EXCEPT ![k] = 0] /\ Goto(w, "stop")
    BY <1>12 DEF stoppersDelete, Delete, outerVars, miscVars, memoVars, InLoop, Closing
  <2>2. stoppers'[k] = 0 /\ \A i \in Kinds \ {k} : SameMaps(i)
    BY <1>0, <1>5, <2>1 DEF SameMaps, TypeOK
  <2>3. count[k] = {} /\ (Mapped(k) => running[k] = {}) /\ informers[k] = 0 /\ listers[k] = 0
    BY <1>5, <2>1 DEF StopKindOK
  <2>4. worker'[w].pc \notin InLoop /\ Steady(k)'
    BY <1>6, <2>1, <2>2, <2>3 DEF Steady, Down, Mapped, InLoop, Closing
  <2> QED
    BY <1>5, <1>6, <2>1, <2>2, <2>4, KindsByWorker
<1> QED
  BY <1>3, <1>4, <1>7, <1>8, <1>9, <1>10, <1>11, <1>12 DEF StopStep
-----------------------------------------------------------------------------
(* The invariant and what it implies.                                      *)

(* NewAgent leaves the agent in a state of the invariant.                  *)
LEMMA InitSInv == Init => SInv
<1> SUFFICES ASSUME Init PROVE SInv
  OBVIOUS
<1>1. /\ \A w \in Workers : worker[w].pc = "idle" /\ ~Busy(w) /\ ~Deciding(w)
      /\ \A s \in Starters : ~Adding(s)
      /\ \A n \in Works : tracked[n] = {} /\ events[n] = 0
      /\ dirty = {} /\ waiting = {} /\ present = {} /\ fault = "none"
  BY DEF Init, IdleWorker, IdleStarter, Busy, Deciding, Adding, Starting
<1>2. DeletesOK /\ DecidingOK
  BY <1>1 DEF DeletesOK, DecidingOK, GoneFrom
<1>3. DifferentOK /\ ExclusiveOK
  BY <1>1 DEF DifferentOK, Different, ExclusiveOK, Removing, Past, Stopping
<1> QED
  BY <1>1, <1>2, <1>3, InitInv, EmptyRefs DEF SInv, Control, StopNeverPanics

(* Every step keeps the invariant.                                         *)
LEMMA NextSInv == ASSUME Orderly, SInv, [Next]_vars PROVE SInv'
<1>0. Inv /\ Control /\ RefsOK /\ KindsOK /\ StopNeverPanics /\ Inv'
  BY NextInv DEF SInv
<1>1. CASE UNCHANGED vars \/ Crash
  <2>0. /\ UNCHANGED <<clusterVars, restarts, abandoned, leaked, queueVars, sharedVars,
                       worker, starter>>
        /\ fault' \in {fault, "crash"}
    BY <1>1 DEF vars, outerVars, miscVars, Crash, Panic
  <2> USE <2>0 DEF clusterVars, queueVars, sharedVars, mapVars, memoVars
  <2>1. DeletesOK' /\ DecidingOK'
    BY <1>0 DEF Control, DeletesOK, DecidingOK, GoneFrom, Busy, Of, Deciding
  <2>2. DifferentOK' /\ ExclusiveOK'
    BY <1>0, ExclusiveKept DEF Control, DifferentOK, Different, OnTheWay, GoneFrom, Busy, Of, Deciding
  <2>3. RefsOK' /\ KindsOK' /\ StopNeverPanics'
    BY <1>0, RefsKept, KindsKept DEF kindVars, StopNeverPanics
  <2> QED
    BY <1>0, <2>1, <2>2, <2>3 DEF SInv, Control
<1>2. CASE Next /\ ~Crash
  <2>1. Control'
    BY <1>0, <1>2, ControlNext
  <2>2. CASE \/ Environment \/ (\E n \in Works : enqueueObject(n))
             \/ \E k \in waiting : AddRateLimitedFires(k)
    <3>1. UNCHANGED <<tracked, count, worker, starter, leaked, abandoned>>
      BY <2>2 DEF Environment, ApplyWork, DeleteWork, ChangeCRD, enqueueObject, AddRateLimitedFires,
         outerVars, miscVars, sharedVars, memoVars
    <3>2. RefsOK' /\ KindsOK' /\ fault' = fault
      BY <1>0, <2>2, <3>1, RefsKept, KindsOutside
    <3> QED
      BY <1>0, <2>1, <3>2 DEF SInv, StopNeverPanics
  <2>3. ASSUME NEW w \in Workers, WorkerStep(w) PROVE SInv'
    <3>1. CASE StopStep(w)
      <4>1. RefsOK'
        BY <1>0, <3>1, RefsStop
      <4>2. KindsOK' /\ (fault' = fault \/ fault' = "nilMapper")
        BY <1>0, <3>1, KindsStop
      <4> QED
        BY <1>0, <2>1, <4>1, <4>2 DEF SInv, StopNeverPanics
    <3>2. CASE ~StopStep(w)
      <4>1. \/ \E k \in dirty : reconcile(w, k)
            \/ trackedGet(w) \/ trackedGetGone(w) \/ trackedDelete(w)
            \/ \E s \in Starters : trackedSet(w, s)
        BY <2>3, <3>2 DEF WorkerStep, StopStep
      <4>2. RefsOK'
        BY <1>0, <4>1, RefsLook, RefsSet, RefsForget
      <4>3. KindsOK' /\ fault' = fault
        BY <1>0, <4>1, KindsOutside
      <4> QED
        BY <1>0, <2>1, <4>2, <4>3 DEF SInv, StopNeverPanics
    <3> QED
      BY <3>1, <3>2
  <2>4. ASSUME NEW s \in Starters, StarterStep(s) PROVE SInv'
    <3>1. RefsOK'
      BY <1>0, <2>4, RefsStart
    <3>2. KindsOK' /\ (fault' = fault \/ fault' = "nilMapper")
      BY <1>0, <2>4, KindsStart
    <3> QED
      BY <1>0, <2>1, <3>1, <3>2 DEF SInv, StopNeverPanics
  <2>5. CASE Restart
    <3>1. RefsOK' /\ KindsOK' /\ fault' = "none"
      BY <2>5, EmptyRefs DEF Restart
    <3> QED
      BY <1>0, <2>1, <3>1 DEF SInv, StopNeverPanics
  <2> QED
    BY <1>2, <2>2, <2>3, <2>4, <2>5 DEF Next
<1> QED
  BY <1>1, <1>2

(* A quiet agent counts what it tracks, but for what was skipped.          *)
LEMMA QuietCounted ==
    ASSUME SInv, Quiet, NEW k \in Kinds \ Excluded
    PROVE  /\ \A u \in count[k] : u \in leaked \/ u \in TrackedOf(k)
           /\ \A u \in TrackedOf(k) : u \in count[k] \/ u \in abandoned
           /\ Steady(k)
<1>0. Inv /\ Control /\ CountOK /\ HeldOK /\ DueOK /\ KindsOK
  BY DEF SInv, RefsOK
<1>1. /\ \A w \in Workers : ~Busy(w)
      /\ \A s \in Starters : ~Adding(s)
  BY <1>0, QuietCalm
<1>2. \A w \in Workers : ~Stopping(w) /\ ~Past(w) /\ worker[w].pc \notin InLoop
  BY <1>1 DEF Stopping, Past, Busy, InLoop, Closing
<1>3. ASSUME NEW u \in count[k] PROVE u \in leaked \/ u \in TrackedOf(k)
  <2>1. PICK n \in Works : u \in MayList[n]
    BY <1>0 DEF CountOK
  <2>2. KindOf[u] = k
    BY <1>0 DEF CountOK
  <2>3. u \in leaked \/ u \in tracked[n]
    BY <1>0, <1>2, <2>1, <2>2 DEF HeldOK
  <2> QED
    BY <2>2, <2>3 DEF TrackedOf
<1>4. ASSUME NEW u \in TrackedOf(k) PROVE u \in count[k] \/ u \in abandoned
  <2>1. PICK n \in Works : u \in tracked[n] /\ KindOf[u] = k
    BY DEF TrackedOf
  <2>2. Counted(u)
    BY <1>0, <1>2, <2>1 DEF DueOK
  <2> QED
    BY <1>1, <2>1, <2>2 DEF Counted, Adding
<1>5. Steady(k)
  BY <1>0, <1>1, <1>2 DEF KindsOK, StarterAt, WorkerAt, Adding
<1> QED
  BY <1>3, <1>4, <1>5

(* One informer for each kind with objects and none for the others: under  *)
(* an orderly schedule, whenever the agent is quiet, the informers,        *)
(* listers and stoppers maps name the one running informer of each kind    *)
(* that has tracked objects, for any number of works, objects, kinds,      *)
(* workers and goroutines, with CRDs coming and going and failing          *)
(* discovery.                                                              *)
THEOREM OneInformerPerKind == ASSUME Orderly PROVE Spec => []SingletonInformer
<1>1. ASSUME SInv PROVE SingletonInformer
  <2> SUFFICES ASSUME Quiet, NEW k \in Kinds \ Excluded, Mapped(k)
               PROVE  IF TrackedOf(k) = {}
                      THEN /\ running[k] = {} /\ informers[k] = 0
                           /\ listers[k] = 0 /\ stoppers[k] = 0
                      ELSE /\ informers[k] = listers[k] /\ listers[k] = stoppers[k]
                           /\ running[k] = {informers[k]}
    BY DEF SingletonInformer
  <2>1. \A u \in TrackedOf(k) : KindOf[u] = k
    BY DEF TrackedOf
  <2>2. \A u \in count[k] : KindOf[u] = k
    BY <1>1 DEF SInv, RefsOK, CountOK
  <2>3. count[k] = {} <=> TrackedOf(k) = {}
    BY <1>1, <2>1, <2>2, QuietCounted DEF Mapped
  <2>4. Steady(k)
    BY <1>1, QuietCounted
  <2> QED
    BY <2>3, <2>4 DEF Steady, Up, Down
<1> QED
  BY <1>1, InitSInv, NextSInv, PTL DEF Spec

(* Under an orderly schedule no reference is leaked or lost for good: a    *)
(* quiet agent counts exactly the objects it tracks, but for those it      *)
(* skipped because the restMapper did not know a kind.                     *)
THEOREM TrackedAreCounted == ASSUME Orderly PROVE Spec => []OnlyTrackedCounted
<1>1. ASSUME SInv PROVE OnlyTrackedCounted
  BY <1>1, QuietCounted DEF OnlyTrackedCounted
<1> QED
  BY <1>1, InitSInv, NextSInv, PTL DEF Spec

(* Under an orderly schedule stopInformer never panics: it always finds    *)
(* the stop channel of the kind, and finds it open.                        *)
THEOREM StopsSafely == ASSUME Orderly PROVE Spec => []StopNeverPanics
<1>1. SInv => StopNeverPanics
  BY DEF SInv
<1> QED
  BY <1>1, InitSInv, NextSInv, PTL DEF Spec
-----------------------------------------------------------------------------
(* No informer is taken away from an object that needs it.                 *)

(* The list of a work that is gone is empty.                               *)
ListOK == \A n \in Works \ present : applied[n] = {}

LEMMA ListKept == ASSUME ListOK, TypeOK, [Next]_vars PROVE ListOK'
<1>1. ASSUME UNCHANGED <<present, applied>> PROVE ListOK'
  BY <1>1 DEF ListOK
<1>2. CASE UNCHANGED vars
  BY <1>1, <1>2 DEF vars, outerVars, clusterVars
<1>3. ASSUME NEW n \in Works, DeleteWork(n) PROVE ListOK'
  BY <1>3 DEF DeleteWork, ListOK, TypeOK
<1>4. ASSUME NEW n \in Works, NEW S \in SUBSET MayList[n], ApplyWork(n, S) PROVE ListOK'
  BY <1>4 DEF ApplyWork, ListOK, TypeOK
<1>5. ASSUME NEW k \in Kinds, ChangeCRD(k) PROVE ListOK'
  BY <1>1, <1>5 DEF ChangeCRD
<1>6. CASE Restart \/ Crash
  BY <1>1, <1>6 DEF Restart, Crash, clusterVars
<1>7. ASSUME \/ \E n \in Works : enqueueObject(n)
             \/ \E k \in waiting : AddRateLimitedFires(k)
      PROVE  ListOK'
  BY <1>1, <1>7 DEF enqueueObject, AddRateLimitedFires, outerVars, clusterVars
<1>8. ASSUME NEW w \in Workers, WorkerStep(w) PROVE ListOK'
  BY <1>1, <1>8 DEF WorkerStep, reconcile, trackedGet, trackedSet, trackedGetGone,
     stopInformers, stopDeleteUID, stopGetUIDCount, stopInformer, informersDelete,
     listersDelete, stoppersDelete, stopGetRestMapper, stopSetRestMapper, trackedDelete,
     outerVars, clusterVars
<1>9. ASSUME NEW s \in Starters, StarterStep(s) PROVE ListOK'
  BY <1>1, <1>9 DEF StarterStep, startGetRestMapper, startSetRestMapper, startInformers,
     startGetUIDCount, informersSet, listersSet, stoppersSet, startReturns,
     outerVars, clusterVars
<1> QED
  BY <1>2, <1>3, <1>4, <1>5, <1>6, <1>7, <1>8, <1>9 DEF Next, Environment

(* Only listersDelete and a new process delete a lister.                   *)
LEMMA ListerDeleted ==
    ASSUME SInv, [Next]_vars, up, NEW k \in Kinds, listers[k] # 0, listers'[k] = 0
    PROVE  \E w \in Workers : listersDelete(w) /\ KindOf[worker[w].cur] = k
<1>1. ASSUME UNCHANGED listers PROVE FALSE
  BY <1>1
<1>2. CASE UNCHANGED vars
  BY <1>1, <1>2 DEF vars, sharedVars, mapVars
<1>3. CASE \/ Environment \/ Restart \/ Crash \/ (\E n \in Works : enqueueObject(n))
           \/ \E j \in waiting : AddRateLimitedFires(j)
  BY <1>1, <1>3 DEF Environment, ApplyWork, DeleteWork, ChangeCRD, enqueueObject,
     AddRateLimitedFires, Restart, Crash, sharedVars, mapVars
<1>4. ASSUME NEW s \in Starters, StarterStep(s) PROVE FALSE
  <2>1. CASE listersSet(s)
    <3>1. starter[s].id # 0
      BY <2>1 DEF listersSet, SInv, KindsOK, StartKindOK, Starting
    <3> QED
      BY <2>1, <3>1 DEF listersSet, Set, SInv, Inv, TypeOK
  <2>2. CASE ~listersSet(s)
    BY <1>1, <1>4, <2>2 DEF StarterStep, startGetRestMapper, startSetRestMapper, startInformers,
       startGetUIDCount, informersSet, stoppersSet, startReturns, sharedVars, mapVars
  <2> QED
    BY <2>1, <2>2
<1>5. ASSUME NEW w \in Workers, WorkerStep(w)
      PROVE  listersDelete(w) /\ KindOf[worker[w].cur] = k
  <2>1. listersDelete(w)
    BY <1>1, <1>5 DEF WorkerStep, reconcile, trackedGet, trackedSet, trackedGetGone,
       stopInformers, stopDeleteUID, stopGetUIDCount, stopInformer, informersDelete,
       stoppersDelete, stopGetRestMapper, stopSetRestMapper, trackedDelete, sharedVars, mapVars
  <2> QED
    BY <2>1 DEF listersDelete, Delete, SInv, Inv, TypeOK
<1> QED
  BY <1>2, <1>3, <1>4, <1>5 DEF Next

(* A worker that deletes the lister of a kind leaves no object of the kind *)
(* behind that some work lists.                                            *)
LEMMA StoppedUnneeded ==
    ASSUME SInv, ListOK, NEW w \in Workers, worker[w].pc = "delLister",
           NEW n \in Works, NEW u \in applied[n], KindOf[u] = KindOf[worker[w].cur],
           KindOf[u] \notin Excluded, Mapped(KindOf[u])
    PROVE  FALSE
<1>0. Inv /\ Control /\ DueOK /\ KindsOK /\ n \in present
  BY DEF SInv, RefsOK, ListOK
<1>1. count[KindOf[u]] = {} /\ Removing(w) /\ Busy(w)
  BY <1>0 DEF KindsOK, StopKindOK, InLoop, Closing, Removing, Stopping, Deciding, Busy
<1>2. tracked[n] = applied[n]
  <2> SUFFICES ASSUME Different(n) PROVE FALSE
    BY <1>0 DEF Different
  <2>1. worker[w].gone
    BY <1>0, <1>1 DEF Control, ExclusiveOK
  <2>2. Past(w)
    BY <1>1, <2>1 DEF Past
  <2> QED
    BY <1>0, <2>2, PastDiffers DEF Control, DifferentOK
<1>3. Counted(u) \/ \E v \in Workers : Past(v) /\ Of(v) = n
  BY <1>0, <1>2 DEF DueOK
<1>4. \A v \in Workers : Past(v) => Of(v) # n
  BY <1>0, PastDiffers
<1>5. ~Counted(u)
  BY <1>0, <1>1 DEF Counted, Control, ExclusiveOK, Adding, Mapped
<1> QED
  BY <1>3, <1>4, <1>5

(* Under an orderly schedule the agent never takes the informer away from  *)
(* an object that some work still lists: when the last reference of a kind *)
(* is released, no list has an object of the kind.                         *)
THEOREM KeepsNeededInformers == ASSUME Orderly PROVE Spec => NeededInformerKept
<1> DEFINE Step == \A n \in Works : \A u \in applied[n] :
               up /\ KindOf[u] \notin Excluded /\ Mapped(KindOf[u]) /\ listers[KindOf[u]] # 0 =>
                   listers'[KindOf[u]] # 0
<1>1. ASSUME SInv, ListOK, [Next]_vars PROVE [Step]_vars
  <2> SUFFICES ASSUME NEW n \in Works, NEW u \in applied[n], up, KindOf[u] \notin Excluded,
                      Mapped(KindOf[u]), listers[KindOf[u]] # 0, listers'[KindOf[u]] = 0
               PROVE  FALSE
    OBVIOUS
  <2>1. Inv /\ KindOf[u] \in Kinds
    BY <1>1, ConstantsAssumption DEF SInv, Inv, TypeOK
  <2>2. PICK w \in Workers : listersDelete(w) /\ KindOf[worker[w].cur] = KindOf[u]
    BY <1>1, <2>1, ListerDeleted
  <2> QED
    BY <1>1, <2>2, StoppedUnneeded DEF listersDelete
<1>2. Init => ListOK
  BY DEF Init, ListOK
<1>3. ASSUME SInv, ListOK, [Next]_vars PROVE ListOK'
  BY <1>3, ListKept DEF SInv, Inv
<1> QED
  BY <1>1, <1>2, <1>3, InitSInv, NextSInv, PTL DEF Spec, NeededInformerKept
=============================================================================
